---- MODULE Spec2Model ----
(***************************************************************************)
(* Model of the EJS navigation extension (hoojiNT/ejsext):                 *)
(*   - DocumentCacheManager   (src/src/cache/documentCache.ts)             *)
(*   - EJSDefinitionProvider  (src/unnamed/part_005)                       *)
(*   - EJSHoverProvider       (src/unnamed/part_003)                       *)
(*   - EJSVisualFeedbackProvider (src/unnamed/part_002)                    *)
(*   - activate               (src/src/extension.ts)                       *)
(* Time is in milliseconds (Date.now()).  URIs are small integers.  A JS   *)
(* Map is a sequence of entries in insertion order with unique keys.       *)
(***************************************************************************)
EXTENDS Integers, Sequences, FiniteSets, TLC

(***************************************************************************)
(* Program constants                                                       *)
(***************************************************************************)
MAX_CACHE_SIZE == 100
CACHE_TTL_MS == 300000
CLEANUP_INTERVAL_MS == 60000
TIMEOUT_MS == 500
HOVER_DELAY_MS == 100

(***************************************************************************)
(* Bounds of the model                                                     *)
(***************************************************************************)
NumForeground == 1
NumBackground == 100
MaxVersion == 2
TickStep == 110000
MaxTime == 440000
MaxCalls == 3
MaxSymbols == 3
MaxQueries == 2
MaxMoves == 3

Foreground == 1..NumForeground
Background == (NumForeground + 1)..(NumForeground + NumBackground)
Versions == 1..MaxVersion

(***************************************************************************)
(* null / undefined of the program.  Every value a query or a cache read   *)
(* can return is a record, so that it can be compared with Null.           *)
(***************************************************************************)
Null == [null |-> TRUE]

(***************************************************************************)
(* Symbols and the symbol index                                            *)
(***************************************************************************)
\* createSymbolInfo: definition is the location, references start with it.
\* Names and words are sequences of characters.
Sym(n, l, c) ==
    [name |-> n, definition |-> [line |-> l, character |-> c],
     references |-> <<[line |-> l, character |-> c]>>]

CompareBad(a, b) ==
    IF a.definition.line # b.definition.line
    THEN b.definition.line - a.definition.line
    ELSE a.definition.character - b.definition.character

\* comparator of createSymbolIndex / findSymbolDefinition: negative when a
\* sorts before b
Compare(a, b) ==
    IF a.definition.line # b.definition.line
    THEN a.definition.line - b.definition.line
    ELSE a.definition.character - b.definition.character

\* Array.prototype.sort is stable: insertion after the last element that
\* does not compare greater.
RECURSIVE InsertSym(_, _)
InsertSym(sorted, s) ==
    IF sorted = <<>> THEN <<s>>
    ELSE IF Compare(sorted[Len(sorted)], s) <= 0
         THEN Append(sorted, s)
         ELSE Append(InsertSym(SubSeq(sorted, 1, Len(sorted) - 1), s),
                     sorted[Len(sorted)])

RECURSIVE SortSymbols(_)
SortSymbols(list) ==
    IF list = <<>> THEN <<>>
    ELSE InsertSym(SortSymbols(SubSeq(list, 1, Len(list) - 1)), list[Len(list)])

SymbolsNamed(symbols, n) == SelectSeq(symbols, LAMBDA s : s.name = n)

NamesOf(symbols) == { symbols[i].name : i \in 1..Len(symbols) }

\* createSymbolInfo with the kind of the symbol
SymOfKind(n, l, c, kind) ==
    [name |-> n, definition |-> [line |-> l, character |-> c],
     references |-> <<[line |-> l, character |-> c]>>, kind |-> kind]

createSymbolIndexUnsorted(symbols) ==
    [index |-> [n \in NamesOf(symbols) |-> SymbolsNamed(symbols, n)]]

\* DocumentCacheManager.createSymbolIndex: group by name in list order, then
\* sort every bucket.
createSymbolIndex(symbols) ==
    [index |-> [n \in NamesOf(symbols) |-> SortSymbols(SymbolsNamed(symbols, n))]]

(***************************************************************************)
(* State                                                                   *)
(***************************************************************************)
VARIABLES
    now,                  \* Date.now()
    cache,                \* DocumentCacheManager.cache
    parsedDocumentCache,  \* DocumentCacheManager.parsedDocumentCache
    lastSet,              \* history: the last set call per cache and URI
    calls,                \* number of API calls and host events so far
    ret,                  \* the last call or event, with what it returned
    doc,                  \* the document open in the editor
    q,                    \* the provider query in progress or last settled
    timers,               \* pending setTimeout callbacks of the providers
    template,             \* the text of the template handed to the parser
    analyzer,             \* the SymbolAnalyzer instance (its symbols map)
    monitor,              \* the PerformanceMonitor instance
    out,                  \* what the last parser or analyzer call returned
    performanceMetrics,   \* DocumentCacheManager.performanceMetrics
    cleanupTimer,         \* DocumentCacheManager.cleanupTimer is set
    cursor                \* the EJSCursorManager, its timers and the context key

cacheVars == <<now, cache, parsedDocumentCache, lastSet, calls, ret>>
queryVars == <<doc, q, timers>>
textVars == <<template, analyzer, monitor, out>>
managerVars == <<performanceMetrics, cleanupTimer, cursor>>
vars == <<now, cache, parsedDocumentCache, lastSet, calls, ret, doc, q, timers, template, analyzer,
          monitor, out, performanceMetrics, cleanupTimer, cursor>>

(***************************************************************************)
(* JS Map                                                                  *)
(***************************************************************************)
MapHas(m, k) == \E i \in 1..Len(m) : m[i].uri = k

MapGet(m, k) ==
    IF MapHas(m, k) THEN m[CHOOSE i \in 1..Len(m) : m[i].uri = k] ELSE Null

\* Map.set keeps the position of an existing key
MapSet(m, e) ==
    IF MapHas(m, e.uri)
    THEN [i \in 1..Len(m) |-> IF m[i].uri = e.uri THEN e ELSE m[i]]
    ELSE Append(m, e)

MapDelete(m, k) == SelectSeq(m, LAMBDA e : e.uri # k)

MapKeys(m) == { m[i].uri : i \in 1..Len(m) }

(***************************************************************************)
(* DocumentCacheManager                                                    *)
(***************************************************************************)
isCacheExpired(at, timestamp) == at - timestamp > CACHE_TTL_MS

\* entries.sort((a, b) => a[1].timestamp - b[1].timestamp) is stable: the
\* index (from 1) of entry i of the map in the sorted array
SortedIndex(m, i) ==
    1 + Cardinality({ j \in 1..Len(m) :
                        \/ m[j].timestamp < m[i].timestamp
                        \/ m[j].timestamp = m[i].timestamp /\ j < i })

\* Math.ceil(n * 0.2); at n = MAX_CACHE_SIZE the double product is exactly 20
CeilFifth(n) == (n + 4) \div 5

\* the first fifth in insertion order
evictOldestUnsorted(m) ==
    SubSeq(m, CeilFifth(Len(m)) + 1, Len(m))

\* evictOldestEntries / evictOldestParsedDocuments
evictOldest(m) ==
    LET toRemove == CeilFifth(Len(m))
        removed == { m[i].uri : i \in { j \in 1..Len(m) :
                                          SortedIndex(m, j) <= toRemove } }
    IN  SelectSeq(m, LAMBDA e : e.uri \notin removed)

setEntryEvictsAfter(m, uri, version, value, at) ==
    LET set == MapSet(m, [uri |-> uri, version |-> version, value |-> value,
                          timestamp |-> at])
    IN  IF Len(m) >= MAX_CACHE_SIZE THEN evictOldest(set) ELSE set

\* setSymbols / setParsedDocument: the two bodies differ only in field names
setEntry(m, uri, version, value, at) ==
    LET kept == IF Len(m) >= MAX_CACHE_SIZE THEN evictOldest(m) ELSE m
    IN  MapSet(kept, [uri |-> uri, version |-> version, value |-> value,
                      timestamp |-> at])

getSymbolsAnyVersion(m, uri, version) ==
    LET cached == MapGet(m, uri)
    IN  IF cached # Null THEN cached.value ELSE Null

getSymbols(m, uri, version) ==
    LET cached == MapGet(m, uri)
    IN  IF cached # Null /\ cached.version = version
        THEN cached.value ELSE Null

getParsedDocument(m, uri, version, at) ==
    LET cached == MapGet(m, uri)
    IN  IF cached # Null /\ cached.version = version
           /\ ~isCacheExpired(at, cached.timestamp)
        THEN cached.value ELSE Null

setSymbolsNoEvict(m, uri, version, symbols, at) ==
    MapSet(m, [uri |-> uri, version |-> version, value |-> symbols,
               timestamp |-> at])

\* setSymbols; the entry's fields symbols/lastParsed are value/timestamp here
setSymbols(m, uri, version, symbols, at) ==
    setEntry(m, uri, version, symbols, at)

\* setParsedDocument; the entry's field document is value here
setParsedDocument(m, uri, version, document, at) ==
    setEntry(m, uri, version, document, at)

clearDocumentSymbolsOnly(c, p, uri) ==
    [cache |-> MapDelete(c, uri), parsedDocumentCache |-> p]

\* clearDocument deletes the key from both maps
clearDocument(c, p, uri) ==
    [cache |-> MapDelete(c, uri), parsedDocumentCache |-> MapDelete(p, uri)]

clearAll(c, p) == [cache |-> <<>>, parsedDocumentCache |-> <<>>]

\* entries of exactly the TTL are removed as well
cleanupExpiredInclusive(m, at) ==
    SelectSeq(m, LAMBDA e : at - e.timestamp < CACHE_TTL_MS)

cleanupExpiredEntries(m, at) ==
    SelectSeq(m, LAMBDA e : ~isCacheExpired(at, e.timestamp))

(***************************************************************************)
(* The providers (EJSDefinitionProvider, EJSHoverProvider,                 *)
(* EJSVisualFeedbackProvider)                                              *)
(***************************************************************************)
Letters ==
    { "a", "b", "c", "d", "e", "f", "g", "h", "i", "j", "k", "l",
      "m", "n", "o", "p", "q", "r", "s", "t", "u", "v", "w", "x",
      "y", "z",
      "A", "B", "C", "D", "E", "F", "G", "H", "I", "J", "K", "L",
      "M", "N", "O", "P", "Q", "R", "S", "T", "U", "V", "W", "X",
      "Y", "Z" }
Digits == { "0", "1", "2", "3", "4", "5", "6", "7", "8", "9" }

\* /^[a-zA-Z_$][a-zA-Z0-9_$]*$/
IdentifierRegexTest(identifier) ==
    /\ Len(identifier) >= 1
    /\ identifier[1] \in Letters \cup {"_", "$"}
    /\ \A i \in 2..Len(identifier) :
          identifier[i] \in Letters \cup Digits \cup {"_", "$"}

Keywords ==
    { <<"b", "r", "e", "a", "k">>,
      <<"c", "a", "s", "e">>,
      <<"c", "a", "t", "c", "h">>,
      <<"c", "l", "a", "s", "s">>,
      <<"c", "o", "n", "s", "t">>,
      <<"c", "o", "n", "t", "i", "n", "u", "e">>,
      <<"d", "e", "b", "u", "g", "g", "e", "r">>,
      <<"d", "e", "f", "a", "u", "l", "t">>,
      <<"d", "e", "l", "e", "t", "e">>,
      <<"d", "o">>,
      <<"e", "l", "s", "e">>,
      <<"e", "x", "p", "o", "r", "t">>,
      <<"e", "x", "t", "e", "n", "d", "s">>,
      <<"f", "i", "n", "a", "l", "l", "y">>,
      <<"f", "o", "r">>,
      <<"f", "u", "n", "c", "t", "i", "o", "n">>,
      <<"i", "f">>,
      <<"i", "m", "p", "o", "r", "t">>,
      <<"i", "n">>,
      <<"i", "n", "s", "t", "a", "n", "c", "e", "o", "f">>,
      <<"l", "e", "t">>,
      <<"n", "e", "w">>,
      <<"r", "e", "t", "u", "r", "n">>,
      <<"s", "u", "p", "e", "r">>,
      <<"s", "w", "i", "t", "c", "h">>,
      <<"t", "h", "i", "s">>,
      <<"t", "h", "r", "o", "w">>,
      <<"t", "r", "y">>,
      <<"t", "y", "p", "e", "o", "f">>,
      <<"v", "a", "r">>,
      <<"v", "o", "i", "d">>,
      <<"w", "h", "i", "l", "e">>,
      <<"w", "i", "t", "h">>,
      <<"y", "i", "e", "l", "d">>,
      <<"t", "r", "u", "e">>,
      <<"f", "a", "l", "s", "e">>,
      <<"n", "u", "l", "l">>,
      <<"u", "n", "d", "e", "f", "i", "n", "e", "d">> }

isKeyword(word) == word \in Keywords

isValidIdentifier(identifier) ==
    IdentifierRegexTest(identifier) /\ ~isKeyword(identifier)

BlockHoldsLine(block, position) ==
    /\ position.line >= block.startLine
    /\ position.line <= block.endLine

\* the test findBlockAtPosition makes on one block
BlockHolds(block, position) ==
    /\ position.line >= block.startLine
    /\ position.line <= block.endLine
    /\ IF block.startLine = block.endLine
       THEN /\ position.character >= block.startCharacter
            /\ position.character <= block.endCharacter
       ELSE IF position.line = block.startLine
            THEN position.character >= block.startCharacter
            ELSE IF position.line = block.endLine
                 THEN position.character <= block.endCharacter
                 ELSE TRUE

findBlockAtPositionFirst(blocks, position) ==
    IF blocks = <<>> THEN Null ELSE blocks[1]

\* the first block, in array order, that holds the position
findBlockAtPosition(blocks, position) ==
    LET holding == { i \in 1..Len(blocks) : BlockHolds(blocks[i], position) }
    IN  IF holding = {} THEN Null
        ELSE blocks[CHOOSE i \in holding : \A j \in holding : i <= j]

\* matchingSymbols[0] of the bucket; a bucket is never empty
findSymbolDefinitionOptimized(symbolIndex, symbolName) ==
    IF symbolName \notin DOMAIN symbolIndex.index THEN Null
    ELSE symbolIndex.index[symbolName][1]

\* filter by name, sort by (line, character), take the last
findSymbolDefinitionLast(symbols, symbolName) ==
    LET matchingSymbols == SortSymbols(SymbolsNamed(symbols, symbolName))
    IN  IF matchingSymbols = <<>> THEN Null
        ELSE matchingSymbols[Len(matchingSymbols)]

\* filter by name, sort by (line, character), take the first
findSymbolDefinition(symbols, symbolName) ==
    LET matchingSymbols == SortSymbols(SymbolsNamed(symbols, symbolName))
    IN  IF matchingSymbols = <<>> THEN Null ELSE matchingSymbols[1]

\* IEJSParser.parseDocument: the blocks of the document text
parseDocument(document) == [jsBlocks |-> document.jsBlocks]

\* SymbolAnalyzer.analyzeSymbols: the symbols of every block, in block
\* order.  The content of a block is the sequence of declarations that the
\* rules of analyzeBlock find in its text.
RECURSIVE analyzeSymbols(_)
analyzeSymbols(jsBlocks) ==
    IF jsBlocks = <<>> THEN <<>>
    ELSE jsBlocks[1].content \o analyzeSymbols(Tail(jsBlocks))

\* A request is what the host passes to a provider and what its collaborators
\* do with it: the position, the word range getWordRangeAtPosition finds
\* there, token.isCancellationRequested, the collaborator that throws and
\* the time parseDocument takes.
NoWordRange == [found |-> FALSE]
WordRange(text) == [found |-> TRUE, text |-> text]

\* a catch block that logs and returns null
Catch(r) ==
    IF r.threw THEN [r EXCEPT !.threw = FALSE, !.caught = TRUE, !.found = Null]
    ELSE r

\* the try block shared by findDefinitionInternal and provideHoverInternal,
\* up to the lookup: the SymbolInfo found (or Null), the two maps as the
\* calls leave them, which collaborators ran and whether one threw.
\* parseDocument takes duration ms; fault names the collaborator that throws.
lookupInternal(c, p, document, request, at) ==
    LET position == request.position
        wordRange == request.wordRange
        cancelled == request.cancelled
        fault == request.fault
        duration == request.duration
        uri == document.uri
        version == document.version
        cachedDocument == getParsedDocument(p, uri, version, at)
        mustParse == cachedDocument = Null
        elapsed == IF mustParse THEN duration ELSE 0
        parsedDocument == IF mustParse THEN parseDocument(document)
                          ELSE cachedDocument
        p1 == IF mustParse
              THEN setParsedDocument(p, uri, version, parsedDocument,
                                     at + elapsed)
              ELSE p
        cachedIndex == getSymbols(c, uri, version)
        mustAnalyze == cachedIndex = Null
        symbolIndex == IF mustAnalyze
                       THEN createSymbolIndex(
                              analyzeSymbols(parsedDocument.jsBlocks))
                       ELSE cachedIndex
        c1 == IF mustAnalyze
              THEN setSymbols(c, uri, version, symbolIndex, at + elapsed)
              ELSE c
        Out(found, cc, pp, parsed, analyzed) ==
            [found |-> found, cache |-> cc, parsedDocumentCache |-> pp,
             parserCalls |-> parsed, analyzerCalls |-> analyzed,
             elapsed |-> elapsed, threw |-> FALSE, caught |-> FALSE]
        Threw(cc, pp, parsed, analyzed) ==
            [Out(Null, cc, pp, parsed, analyzed) EXCEPT !.threw = TRUE]
        parsed == IF mustParse THEN 1 ELSE 0
    IN  IF fault = "getParsedDocument" THEN Threw(c, p, 0, 0)
        ELSE IF mustParse /\ fault = "parser" THEN Threw(c, p, 1, 0)
        ELSE IF mustParse /\ fault = "setParsedDocument"
        THEN Threw(c, p, 1, 0)
        ELSE IF findBlockAtPosition(parsedDocument.jsBlocks, position) = Null
        THEN Out(Null, c, p1, parsed, 0)
        ELSE IF fault = "getWordRangeAtPosition"
        THEN Threw(c, p1, parsed, 0)
        ELSE IF ~wordRange.found THEN Out(Null, c, p1, parsed, 0)
        ELSE IF ~isValidIdentifier(wordRange.text)
        THEN Out(Null, c, p1, parsed, 0)
        ELSE IF cancelled THEN Out(Null, c, p1, parsed, 0)
        ELSE IF mustAnalyze /\ fault = "analyzer"
        THEN Threw(c, p1, parsed, 1)
        ELSE Out(findSymbolDefinitionOptimized(symbolIndex, wordRange.text),
                 c1, p1, parsed, IF mustAnalyze THEN 1 ELSE 0)

\* new vscode.Location(document.uri, new vscode.Position(line, character))
Location(uri, definition) ==
    [uri |-> uri, line |-> definition.definition.line,
     character |-> definition.definition.character]

\* new vscode.Hover(createHoverContent(definition, document), wordRange)
Hover(definition, wordRange) ==
    [name |-> definition.name, definitionLine |-> definition.definition.line + 1,
     range |-> wordRange.text]

\* the async function run to its return: it has no await, so its body runs
\* inside the call and the promise it returns is already settled
findDefinitionInternal(c, p, document, request, at) ==
    LET r == Catch(lookupInternal(c, p, document, request, at))
    IN  [r EXCEPT !.found = IF r.found = Null THEN Null
                            ELSE Location(document.uri, r.found)]

provideHoverInternal(c, p, document, request, at) ==
    LET r == Catch(lookupInternal(c, p, document, request, at))
    IN  [r EXCEPT !.found = IF r.found = Null THEN Null
                            ELSE Hover(r.found, request.wordRange)]

\* DocumentHighlight of kind Write at the definition, of kind Read at every
\* reference
Highlights(definition) ==
    [highlights |->
       <<[line |-> definition.definition.line,
          character |-> definition.definition.character, kind |-> "Write"]>>
       \o [i \in 1..Len(definition.references) |->
             [line |-> definition.references[i].line,
              character |-> definition.references[i].character,
              kind |-> "Read"]]]

\* the try block of provideDocumentHighlights after the cancellation test:
\* no cache, the document is parsed and analysed on every call
highlightsInternal(c, p, document, request, at) ==
    LET position == request.position
        wordRange == request.wordRange
        fault == request.fault
        duration == request.duration
        parsedDocument == parseDocument(document)
        definition == findSymbolDefinition(
                        analyzeSymbols(parsedDocument.jsBlocks), wordRange.text)
        Out(found, parsed, analyzed) ==
            [found |-> found, cache |-> c, parsedDocumentCache |-> p,
             parserCalls |-> parsed, analyzerCalls |-> analyzed,
             elapsed |-> duration, threw |-> FALSE, caught |-> FALSE]
        Threw(parsed, analyzed) ==
            [Out(Null, parsed, analyzed) EXCEPT !.threw = TRUE]
    IN  IF fault = "parser" THEN Threw(1, 0)
        ELSE IF findBlockAtPosition(parsedDocument.jsBlocks, position) = Null
        THEN Out(Null, 1, 0)
        ELSE IF fault = "getWordRangeAtPosition" THEN Threw(1, 0)
        ELSE IF ~wordRange.found THEN Out(Null, 1, 0)
        ELSE IF ~isValidIdentifier(wordRange.text) THEN Out(Null, 1, 0)
        ELSE IF fault = "analyzer" THEN Threw(1, 1)
        ELSE IF definition = Null THEN Out(Null, 1, 1)
        ELSE Out(Highlights(definition), 1, 1)

(***************************************************************************)
(* Promises                                                                *)
(***************************************************************************)
Pending == [settled |-> FALSE, rejected |-> FALSE, value |-> Null]
Fulfilled(value) == [settled |-> TRUE, rejected |-> FALSE, value |-> value]
Rejected == [settled |-> TRUE, rejected |-> TRUE, value |-> Null]

promiseRaceNever(definitionPromise, timeoutPromise) == Pending

\* Promise.race([definitionPromise, timeoutPromise]): the first settled
\* promise in array order when the reactions run
promiseRace(definitionPromise, timeoutPromise) ==
    IF definitionPromise.settled THEN definitionPromise
    ELSE IF timeoutPromise.settled THEN timeoutPromise
    ELSE Pending

(***************************************************************************)
(* Entry points of the providers.  What a call hands back: returned is     *)
(* "null" (a plain null), "value" (a plain value), "promise" (the race) or *)
(* "threw" (the exception reaches the host: the query ends as a rejected   *)
(* result); timer says whether setTimeout(.., 500) was called; faulted     *)
(* says whether a collaborator was called and threw.                       *)
(***************************************************************************)
ReturnedNull(c, p) ==
    [returned |-> "null", definitionPromise |-> Pending, timer |-> FALSE,
     cache |-> c, parsedDocumentCache |-> p, parserCalls |-> 0,
     analyzerCalls |-> 0, elapsed |-> 0, faulted |-> FALSE]

ReturnedValue(r) ==
    [returned |-> IF r.threw THEN "threw" ELSE "value",
     definitionPromise |-> Fulfilled(r.found), timer |-> FALSE,
     cache |-> r.cache, parsedDocumentCache |-> r.parsedDocumentCache,
     parserCalls |-> r.parserCalls, analyzerCalls |-> r.analyzerCalls,
     elapsed |-> r.elapsed, faulted |-> r.threw \/ r.caught]

ReturnedRace(r) ==
    [returned |-> "promise",
     definitionPromise |-> IF r.threw THEN Rejected ELSE Fulfilled(r.found),
     timer |-> TRUE,
     cache |-> r.cache, parsedDocumentCache |-> r.parsedDocumentCache,
     parserCalls |-> r.parserCalls, analyzerCalls |-> r.analyzerCalls,
     elapsed |-> r.elapsed, faulted |-> r.threw \/ r.caught]

\* the finally block: this.cache.recordParseTime(parseTime) runs after the
\* return value is computed, and an exception it throws replaces that value
Finally(r, request) ==
    IF request.fault = "recordParseTime"
    THEN [r EXCEPT !.returned = "threw", !.faulted = TRUE]
    ELSE r

provideDefinitionUnchecked(c, p, document, request, at) ==
    Finally(ReturnedRace(findDefinitionInternal(c, p, document, request, at)), request)

provideDefinition(c, p, document, request, at) ==
    Finally(IF request.cancelled THEN ReturnedNull(c, p)
            ELSE ReturnedRace(findDefinitionInternal(c, p, document, request,
                                                     at)),
            request)

provideHover(c, p, document, request, at) ==
    Finally(IF request.cancelled THEN ReturnedNull(c, p)
            ELSE ReturnedRace(provideHoverInternal(c, p, document, request,
                                                   at)),
            request)

provideDocumentHighlights(c, p, document, request, at) ==
    IF request.cancelled THEN ReturnedNull(c, p)
    ELSE ReturnedValue(Catch(highlightsInternal(c, p, document, request, at)))

(***************************************************************************)
(* Strings: a string is the sequence of its characters; indices are        *)
(* 0-based, as in JavaScript                                               *)
(***************************************************************************)
SetMin(S) == CHOOSE x \in S : \A y \in S : x <= y

SetMax(S) == CHOOSE x \in S : \A y \in S : y <= x

\* s.substring(i, j)
substring(s, i, j) == SubSeq(s, i + 1, j)

\* s.startsWith(w, i)
startsWith(s, w, i) ==
    /\ i + Len(w) <= Len(s)
    /\ SubSeq(s, i + 1, i + Len(w)) = w

\* s.indexOf(w, from): the first occurrence at or after from, or -1
indexOfFrom(s, w, from) ==
    LET hits == {i \in from..(Len(s) - Len(w)) : startsWith(s, w, i)}
    IN  IF hits = {} THEN -1 ELSE SetMin(hits)

indexOf(s, w) == indexOfFrom(s, w, 0)

\* the characters \s matches and trim() removes
isWhitespace(c) == c \in {" ", "\n", "\t"}

trim(s) ==
    LET kept == {i \in 1..Len(s) : ~isWhitespace(s[i])}
    IN  IF kept = {} THEN <<>> ELSE SubSeq(s, SetMin(kept), SetMax(kept))

\* s.split(separator), for a separator of one character
split(s, separator) ==
    LET breaks == {i \in 1..Len(s) : s[i] = separator}
        before(k) == IF k = 1 THEN 0
                     ELSE CHOOSE i \in breaks :
                              Cardinality({j \in breaks : j < i}) = k - 2
        after(k) == IF k = Cardinality(breaks) + 1 THEN Len(s) + 1
                    ELSE CHOOSE i \in breaks :
                             Cardinality({j \in breaks : j < i}) = k - 1
    IN  [k \in 1..(Cardinality(breaks) + 1) |->
            SubSeq(s, before(k) + 1, after(k) - 1)]

\* the concatenation of a sequence of sequences (push(...list) in a loop)
RECURSIVE Flatten(_)
Flatten(lists) ==
    IF lists = <<>> THEN <<>>
    ELSE Flatten(SubSeq(lists, 1, Len(lists) - 1)) \o lists[Len(lists)]

(***************************************************************************)
(* EJSParser                                                               *)
(***************************************************************************)
getLineAndCharacter(content, index) ==
    LET lines == split(substring(content, 0, index), "\n")
    IN  [line |-> Len(lines) - 1, character |-> Len(lines[Len(lines)])]

CloseDelimiter == <<"%", ">">>

\* the three patterns, in the order extractJavaScriptBlocks processes them
TagPatterns ==
    << [opener |-> <<"<", "%">>, tagType |-> "scriptlet"],
       [opener |-> <<"<", "%", "-">>, tagType |-> "unescaped"],
       [opener |-> <<"<", "%", "=">>, tagType |-> "output"] >>

\* regex.exec(content) of /OPENER\s*((?:(?!%>)[\s\S])*?)\s*%>/g at lastIndex:
\* the leftmost opener that some later %> closes, up to the first such %>;
\* group 1 is what lies between, less the whitespace \s* takes on both sides
execTag(content, opener, lastIndex) ==
    LET starts == {i \in lastIndex..Len(content) :
                      /\ startsWith(content, opener, i)
                      /\ indexOfFrom(content, CloseDelimiter,
                                     i + Len(opener)) # -1}
        i == SetMin(starts)
        j == indexOfFrom(content, CloseDelimiter, i + Len(opener))
    IN  IF starts = {} THEN Null
        ELSE [index |-> i, lastIndex |-> j + 2,
              full |-> substring(content, i, j + 2),
              group |-> trim(substring(content, i + Len(opener), j))]

JavaScriptBlock(content, match, tagType) ==
    LET fullMatch == match.full
        jsCode == trim(match.group)
        startIndex == match.index
        jsStartIndex == startIndex + indexOf(fullMatch, jsCode)
        jsStartPos == getLineAndCharacter(content, jsStartIndex)
    IN  [content |-> jsCode,
         startLine |-> jsStartPos.line,
         endLine |-> jsStartPos.line + (Len(split(jsCode, "\n")) - 1),
         startCharacter |-> jsStartPos.character,
         endCharacter |-> jsStartPos.character + Len(jsCode),
         tagType |-> tagType]

\* the while loop over regex.exec for one pattern
RECURSIVE matchPattern(_, _, _)
matchPattern(content, pattern, lastIndex) ==
    LET match == execTag(content, pattern.opener, lastIndex)
    IN  IF match = Null THEN <<>>
        ELSE IF trim(match.group) = <<>>
        THEN matchPattern(content, pattern, match.lastIndex)
        ELSE <<JavaScriptBlock(content, match, pattern.tagType)>>
             \o matchPattern(content, pattern, match.lastIndex)

BlockBefore(a, b) ==
    IF a.startLine # b.startLine THEN a.startLine < b.startLine
    ELSE a.startCharacter < b.startCharacter

\* blocks.sort(...), which is stable: the place of blocks[i] in the result
sortedPlace(blocks, i) ==
    Cardinality({j \in DOMAIN blocks :
                    \/ BlockBefore(blocks[j], blocks[i])
                    \/ (~BlockBefore(blocks[i], blocks[j]) /\ j < i)}) + 1

sortBlocks(blocks) ==
    [k \in DOMAIN blocks |->
        blocks[CHOOSE i \in DOMAIN blocks : sortedPlace(blocks, i) = k]]

extractJavaScriptBlocks(content) ==
    sortBlocks(matchPattern(content, TagPatterns[1], 0)
               \o matchPattern(content, TagPatterns[2], 0)
               \o matchPattern(content, TagPatterns[3], 0))

(***************************************************************************)
(* SymbolAnalyzer: the regular expressions of findVariableDeclarations     *)
(***************************************************************************)
\* const x = value; followed by the code that uses x
With(value, Body(_)) == Body(value)

\* list.map(Op)
MapSeq(list, Op(_)) == [k \in DOMAIN list |-> Op(list[k])]

\* the first attempt, in the order of the attempts, that is a match
firstMatch(tries) ==
    LET hits == {k \in DOMAIN tries : tries[k] # Null}
    IN  IF hits = {} THEN Null ELSE tries[SetMin(hits)]

isIdentifierStart(c) == c \in Letters \cup {"_", "$"}

isIdentifierPart(c) == c \in Letters \cup Digits \cup {"_", "$"}

\* \w
isWordCharacter(c) == c \in Letters \cup Digits \cup {"_"}

\* \b at index i
wordBoundary(s, i) ==
    (i > 0 /\ isWordCharacter(s[i])) # (i < Len(s) /\ isWordCharacter(s[i + 1]))

\* where a greedy \s* that starts at i ends
skipWhitespace(s, i) ==
    SetMin({k \in i..Len(s) : k = Len(s) \/ ~isWhitespace(s[k + 1])})

\* where a greedy [a-zA-Z0-9_$]* that starts at i ends
skipIdentifier(s, i) ==
    SetMin({k \in i..Len(s) : k = Len(s) \/ ~isIdentifierPart(s[k + 1])})

DeclarationKeywords ==
    { <<"c", "o", "n", "s", "t">>, <<"l", "e", "t">>, <<"v", "a", "r">> }

FunctionKeyword == <<"f", "u", "n", "c", "t", "i", "o", "n">>

Arrow == <<"=", ">">>

\* \b(const|let|var) at i: the index after the keyword, or -1
matchKeyword(s, i) ==
    LET ks == {k \in DeclarationKeywords : startsWith(s, k, i)}
    IN  IF wordBoundary(s, i) /\ ks # {}
        THEN i + Len(CHOOSE k \in ks : TRUE) ELSE -1

\* [a-zA-Z_$][a-zA-Z0-9_$]* at i: the index after the identifier, or -1
matchIdentifier(s, i) ==
    IF i < Len(s) /\ isIdentifierStart(s[i + 1]) THEN skipIdentifier(s, i)
    ELSE -1

\* \s+([a-zA-Z_$][a-zA-Z0-9_$]*) at k
matchName(s, k) ==
    With(skipWhitespace(s, k), LAMBDA w :
        IF w = k THEN Null
        ELSE With(matchIdentifier(s, w), LAMBDA e :
                 IF e = -1 THEN Null
                 ELSE [name |-> substring(s, w, e), lastIndex |-> e]))

\* \b(const|let|var)\s+([a-zA-Z_$][a-zA-Z0-9_$]*) at i
matchDeclarator(s, i) ==
    With(matchKeyword(s, i), LAMBDA k :
        IF k = -1 THEN Null ELSE matchName(s, k))

\* =\s*([^,;]+) at eq: the index after the match, or -1
matchValue(s, eq) ==
    IF eq + 1 < Len(s) /\ s[eq + 1] = "="
    THEN With(SetMin({k \in (eq + 1)..Len(s) :
                         k = Len(s) \/ s[k + 1] \in {",", ";"}}),
              LAMBDA e : IF e > eq + 1 THEN e ELSE -1)
    ELSE -1

\* \s*=\s*([^,;]+) at i: the index after the match, or -1
matchInitializer(s, i) == matchValue(s, skipWhitespace(s, i))

Match(s, i, e, group) ==
    [index |-> i, lastIndex |-> e, full |-> substring(s, i, e),
     group |-> group]

\* /\b(const|let|var)\s+(IDENT)\s*=\s*([^,;]+)/ at i; group is match[2]
matchSimpleAssignment(s, i) ==
    With(matchDeclarator(s, i), LAMBDA d :
        IF d = Null THEN Null
        ELSE With(matchInitializer(s, d.lastIndex), LAMBDA e :
                 IF e = -1 THEN Null ELSE Match(s, i, e, d.name)))

\* /\b(const|let|var)\s+(IDENT)\s*(?=[,;]|$)/ at i; group is match[2]
matchSimpleDeclaration(s, i) ==
    With(matchDeclarator(s, i), LAMBDA d :
        IF d = Null THEN Null
        ELSE With(skipWhitespace(s, d.lastIndex), LAMBDA e :
                 IF e = Len(s) THEN Match(s, i, e, d.name)
                 ELSE IF s[e + 1] \in {",", ";"} THEN Match(s, i, e, d.name)
                 ELSE Null))

Openers == {"{", "["}

Closers == {"}", "]"}

\* (?:[^{}[\]]+|[{[][^{}[\]]*[}\]])* matches exactly s[a..c)
isDestructureContent(s, a, c) ==
    LET bs == {j \in (a + 1)..c : s[j] \in Openers \cup Closers}
        rank(j) == Cardinality({x \in bs : x < j})
    IN  /\ Cardinality(bs) % 2 = 0
        /\ \A j \in bs : IF rank(j) % 2 = 0 THEN s[j] \in Openers
                         ELSE s[j] \in Closers

\* where ((?:[^{}[\]]+|[{[][^{}[\]]*[}\]])*)[}\]]\s*=\s*([^,;]+) may close
\* the pattern opened at o
destructureEnds(s, o) ==
    {c \in (o + 1)..(Len(s) - 1) :
        /\ s[c + 1] \in Closers
        /\ isDestructureContent(s, o + 1, c)
        /\ matchInitializer(s, c + 1) # -1}

\* ([{[])(...)[}\]]\s*=\s*([^,;]+) at o, for a match that begins at i; the
\* greedy content is the longest one that lets the rest match
matchDestructurePattern(s, i, o) ==
    IF o = Len(s) THEN Null
    ELSE IF s[o + 1] \notin Openers THEN Null
    ELSE With(destructureEnds(s, o), LAMBDA ends :
             IF ends = {} THEN Null
             ELSE With(SetMax(ends), LAMBDA c :
                      Match(s, i, matchInitializer(s, c + 1),
                            substring(s, o + 1, c))))

\* /\b(const|let|var)\s*([{[])((?:[^{}[\]]+|[{[][^{}[\]]*[}\]])*)[}\]]
\*  \s*=\s*([^,;]+)/ at i; group is match[3]
matchDestructuring(s, i) ==
    With(matchKeyword(s, i), LAMBDA k :
        IF k = -1 THEN Null ELSE matchDestructurePattern(s, i, skipWhitespace(s, k)))

\* ([^)]*)\s*\) at g: the group and the index after the match
matchParameters(s, g) ==
    With(indexOfFrom(s, <<")">>, g), LAMBDA close :
        IF close = -1 THEN Null
        ELSE [group |-> substring(s, g, close), lastIndex |-> close + 1])

\* \(\s*([^)]*)\s*\) at i: the group and the index after the match
matchParameterList(s, i) ==
    IF i < Len(s)
    THEN IF s[i + 1] = "(" THEN matchParameters(s, skipWhitespace(s, i + 1))
         ELSE Null
    ELSE Null

\* /function\s+IDENT\s*\(\s*([^)]*)\s*\)/ at i; group is match[1]
matchFunction(s, i) ==
    IF ~startsWith(s, FunctionKeyword, i) THEN Null
    ELSE With(matchName(s, i + Len(FunctionKeyword)), LAMBDA f :
             IF f = Null THEN Null
             ELSE With(matchParameterList(s, skipWhitespace(s, f.lastIndex)),
                       LAMBDA list :
                           IF list = Null THEN Null
                           ELSE Match(s, i, list.lastIndex, list.group)))

\* where the text after (?:^|[^a-zA-Z0-9_$]) may begin for a match at i,
\* the ^ alternative first
afterBoundary(s, i) ==
    (IF i = 0 THEN <<0>> ELSE <<>>)
    \o (IF i < Len(s) /\ ~isIdentifierPart(s[i + 1]) THEN <<i + 1>> ELSE <<>>)

\* \s*=> at e, for a match that begins at i with the given group
matchArrowAfter(s, i, e, group) ==
    With(skipWhitespace(s, e), LAMBDA a :
        IF startsWith(s, Arrow, a) THEN Match(s, i, a + 2, group) ELSE Null)

\* \(\s*([^)]*)\s*\)\s*=> at o, for a match that begins at i
matchArrowList(s, i, o) ==
    With(matchParameterList(s, o), LAMBDA list :
        IF list = Null THEN Null
        ELSE matchArrowAfter(s, i, list.lastIndex, list.group))

\* ([a-zA-Z_$][a-zA-Z0-9_$]*)\s*=> at o, for a match that begins at i
matchArrowName(s, i, o) ==
    With(matchIdentifier(s, o), LAMBDA e :
        IF e = -1 THEN Null
        ELSE matchArrowAfter(s, i, e, substring(s, o, e)))

\* /(?:^|[^a-zA-Z0-9_$])\(\s*([^)]*)\s*\)\s*=>/ at i; group is match[1]
matchArrow(s, i) ==
    firstMatch(MapSeq(afterBoundary(s, i), LAMBDA o : matchArrowList(s, i, o)))

\* /(?:^|[^a-zA-Z0-9_$])(IDENT)\s*=>/ at i; group is match[1]
matchSingleArrow(s, i) ==
    firstMatch(MapSeq(afterBoundary(s, i), LAMBDA o : matchArrowName(s, i, o)))

\* the patterns in the order findVariableDeclarations processes them
VariablePatterns ==
    << "simple-assignment", "simple", "destructuring", "function", "arrow",
       "single-arrow" >>

matchAt(pattern, s, i) ==
    CASE pattern = "simple-assignment" -> matchSimpleAssignment(s, i)
      [] pattern = "simple" -> matchSimpleDeclaration(s, i)
      [] pattern = "destructuring" -> matchDestructuring(s, i)
      [] pattern = "function" -> matchFunction(s, i)
      [] pattern = "arrow" -> matchArrow(s, i)
      [] pattern = "single-arrow" -> matchSingleArrow(s, i)

\* regex.exec(line) with the g flag: the leftmost match at or after lastIndex
exec(pattern, s, lastIndex) ==
    firstMatch([i \in lastIndex..Len(s) |-> matchAt(pattern, s, i)])

\* while ((match = pattern.regex.exec(line)) !== null)
RECURSIVE matches(_, _, _)
matches(pattern, s, lastIndex) ==
    With(exec(pattern, s, lastIndex), LAMBDA match :
        IF match = Null THEN <<>>
        ELSE <<match>> \o matches(pattern, s, match.lastIndex))

(***************************************************************************)
(* SymbolAnalyzer: from the matches to the symbols                         *)
(***************************************************************************)
\* simplePattern.exec over /([a-zA-Z_$][a-zA-Z0-9_$]*)/g
RECURSIVE identifiers(_, _)
identifiers(s, lastIndex) ==
    LET starts == {i \in lastIndex..(Len(s) - 1) : isIdentifierStart(s[i + 1])}
        i == SetMin(starts)
        e == skipIdentifier(s, i)
    IN  IF starts = {} THEN <<>>
        ELSE <<substring(s, i, e)>> \o identifiers(s, e)

\* the elements of list at the indices of kept, in their order
Pick(list, kept) ==
    [k \in 1..Cardinality(kept) |->
        list[CHOOSE i \in kept : Cardinality({j \in kept : j < i}) = k - 1]]

\* the loop of parseDestructuring: a name is pushed unless it is already in
\* variables or is a keyword
pushVariables(names) ==
    Pick(names, {i \in DOMAIN names :
                    /\ ~isKeyword(names[i])
                    /\ \A j \in 1..(i - 1) : names[j] # names[i]})

parseDestructuring(destructureContent) ==
    pushVariables(identifiers(destructureContent, 0))

\* a part of paramString.split(','), trimmed
parseCleaned(cleaned) ==
    IF cleaned = <<>> THEN <<>>
    ELSE IF cleaned[1] \in Openers THEN parseDestructuring(cleaned)
    ELSE With(matchIdentifier(cleaned, 0), LAMBDA e :
             IF e # -1 THEN <<substring(cleaned, 0, e)>> ELSE <<>>)

parseParameters(paramString) ==
    Flatten(MapSeq(split(paramString, ","),
                   LAMBDA part : parseCleaned(trim(part))))

\* the symbol of a match of a 'simple' pattern
simpleSymbol(match, lineNumber, baseCharacter) ==
    Sym(match.group, lineNumber,
        baseCharacter + match.index + indexOf(match.full, match.group))

\* the symbols of the names found in the group of one match
groupSymbols(names, match, lineNumber, baseCharacter) ==
    [k \in DOMAIN names |->
        Sym(names[k], lineNumber,
            baseCharacter + match.index + indexOf(match.full, match.group)
            + indexOf(match.group, names[k]))]

\* what the body of one of the while loops pushes for a match
matchSymbols(pattern, match, lineNumber, baseCharacter) ==
    IF pattern \in {"simple-assignment", "simple"}
    THEN <<simpleSymbol(match, lineNumber, baseCharacter)>>
    ELSE IF pattern = "destructuring"
    THEN groupSymbols(parseDestructuring(match.group), match, lineNumber,
                      baseCharacter)
    ELSE IF match.group = <<>> THEN <<>>
    ELSE groupSymbols(parseParameters(match.group), match, lineNumber,
                      baseCharacter)

\* one of the while loops of findVariableDeclarations
patternSymbols(pattern, line, lineNumber, baseCharacter) ==
    Flatten(MapSeq(matches(pattern, line, 0),
                   LAMBDA match : matchSymbols(pattern, match, lineNumber,
                                               baseCharacter)))

findVariableDeclarations(line, lineNumber, baseCharacter) ==
    Flatten(MapSeq(VariablePatterns,
                   LAMBDA pattern : patternSymbols(pattern, line, lineNumber,
                                                   baseCharacter)))

\* the symbols of the line at index i of lines
lineSymbols(block, lines, i) ==
    findVariableDeclarations(lines[i], block.startLine + i - 1,
                             block.startCharacter)

\* the first loop of analyzeBlock
linesSymbols(block, lines) ==
    Flatten([i \in DOMAIN lines |-> lineSymbols(block, lines, i)])

blockSymbols(block) == linesSymbols(block, split(block.content, "\n"))

\* the second loop of analyzeBlock: every symbol is pushed to the list of its
\* name; the map is a function from names to lists
storeSymbols(map, symbols) ==
    [n \in DOMAIN map \cup {symbols[k].name : k \in DOMAIN symbols} |->
        (IF n \in DOMAIN map THEN map[n] ELSE <<>>)
        \o SelectSeq(symbols, LAMBDA symbol : symbol.name = n)]

analyzeBlock(this, block) ==
    With(blockSymbols(block), LAMBDA symbols :
        [this |-> [symbols |-> storeSymbols(this.symbols, symbols)],
         symbols |-> symbols])

\* the loop of analyzeSymbols over the blocks: the symbols of the blocks in
\* block order, stored as analyzeBlock stores them
analyzeBlocks(this, jsBlocks) ==
    With(Flatten(MapSeq(jsBlocks, LAMBDA block : blockSymbols(block))),
         LAMBDA allSymbols :
             [this |-> [symbols |-> storeSymbols(this.symbols, allSymbols)],
              allSymbols |-> allSymbols])

\* new Map()
EmptyMap == [n \in {} |-> <<>>]

\* analyzeSymbols without this.symbols.clear()
analyzeSymbolsUncleared(this, jsBlocks) == analyzeBlocks(this, jsBlocks)

\* SymbolAnalyzer.analyzeSymbols on the text of the blocks
SymbolAnalyzer_analyzeSymbols(this, jsBlocks) ==
    analyzeBlocks([symbols |-> EmptyMap], jsBlocks)

SymbolAnalyzer_findDefinition(this, symbolName) ==
    IF symbolName \notin DOMAIN this.symbols THEN Null
    ELSE IF this.symbols[symbolName] = <<>> THEN Null
    ELSE this.symbols[symbolName][1]

(***************************************************************************)
(* PerformanceMonitor.  Durations are whole milliseconds.  A quotient of   *)
(* two counts is kept as the pair of its terms, so that a comparison with  *)
(* a threshold is exact.                                                   *)
(***************************************************************************)
\* the defaults of the constructor
DefaultConfig ==
    [maxParseTime |-> 500, warningParseTime |-> 200, maxLookupTime |-> 100,
     sampleSize |-> 100, enableLogging |-> FALSE]

\* { ...defaults, ...config }
Spread(defaults, config) ==
    [f \in DOMAIN defaults |->
        IF f \in DOMAIN config THEN config[f] ELSE defaults[f]]

\* new PerformanceMonitor(config)
PerformanceMonitor(config) ==
    [config |-> Spread(DefaultConfig, config), operationTimes |-> <<>>,
     slowOperationCount |-> 0, timeoutOperationCount |-> 0,
     totalOperationCount |-> 0, lastResetTime |-> 0]

pushTimeUnbounded(this, duration) == Append(this.operationTimes, duration)

\* push, then shift when the window is longer than sampleSize
pushTime(this, duration) ==
    IF Len(this.operationTimes) + 1 > this.config.sampleSize
    THEN Tail(Append(this.operationTimes, duration))
    ELSE Append(this.operationTimes, duration)

recordOperationBoth(this, duration) ==
    [this EXCEPT
        !.totalOperationCount = @ + 1,
        !.operationTimes = pushTime(this, duration),
        !.timeoutOperationCount =
            IF duration > this.config.maxParseTime THEN @ + 1 ELSE @,
        !.slowOperationCount =
            IF duration > this.config.warningParseTime THEN @ + 1 ELSE @]

recordOperation(this, duration) ==
    [this EXCEPT
        !.totalOperationCount = @ + 1,
        !.operationTimes = pushTime(this, duration),
        !.timeoutOperationCount =
            IF duration > this.config.maxParseTime THEN @ + 1 ELSE @,
        !.slowOperationCount =
            IF /\ ~(duration > this.config.maxParseTime)
               /\ duration > this.config.warningParseTime
            THEN @ + 1 ELSE @]

\* [...times].sort((a, b) => a - b): the place of each sample in the sorted
\* copy (the sort is stable)
sortedIndex(times, k) ==
    Cardinality({j \in DOMAIN times :
                    \/ times[j] < times[k]
                    \/ times[j] = times[k] /\ j < k})

sortTimes(times) ==
    [p \in DOMAIN times |->
        times[CHOOSE k \in DOMAIN times : sortedIndex(times, k) = p - 1]]

\* Math.max(0, Math.floor(length * 0.95) - 1)
p95Index(length) ==
    IF (95 * length) \div 100 - 1 > 0 THEN (95 * length) \div 100 - 1 ELSE 0

\* Math.max(0, Math.floor(length * 0.99) - 1)
p99Index(length) ==
    IF (99 * length) \div 100 - 1 > 0 THEN (99 * length) \div 100 - 1 ELSE 0

\* sortedTimes[index] || 0
sampleAt(sortedTimes, index) ==
    IF index + 1 \in DOMAIN sortedTimes THEN sortedTimes[index + 1] ELSE 0

RECURSIVE Sum(_)
Sum(times) == IF times = <<>> THEN 0 ELSE Head(times) + Sum(Tail(times))

Quotient(numerator, denominator) ==
    [numerator |-> numerator, denominator |-> denominator]

\* quotient > limit, for a positive denominator
Exceeds(quotient, limit) ==
    quotient.numerator > limit * quotient.denominator

\* the fields of the metrics that isPerformanceAcceptable reads and the
\* counters
getDetailedMetrics(this) ==
    [totalOperations |-> this.totalOperationCount,
     slowOperations |-> this.slowOperationCount,
     timeoutOperations |-> this.timeoutOperationCount,
     rollingAverage |->
        IF Len(this.operationTimes) > 0
        THEN Quotient(Sum(this.operationTimes), Len(this.operationTimes))
        ELSE Quotient(0, 1),
     p95ResponseTime |->
        sampleAt(sortTimes(this.operationTimes),
                 p95Index(Len(this.operationTimes))),
     p99ResponseTime |->
        sampleAt(sortTimes(this.operationTimes),
                 p99Index(Len(this.operationTimes))),
     lastResetTime |-> this.lastResetTime]

\* timeoutOperations / totalOperations, or 0
timeoutRate(metrics) ==
    IF metrics.totalOperations > 0
    THEN Quotient(metrics.timeoutOperations, metrics.totalOperations)
    ELSE Quotient(0, 1)

\* timeoutRate > 0.05
RateTooHigh(metrics) ==
    100 * timeoutRate(metrics).numerator > 5 * timeoutRate(metrics).denominator

isPerformanceAcceptable(this) ==
    /\ ~RateTooHigh(getDetailedMetrics(this))
    /\ ~Exceeds(getDetailedMetrics(this).rollingAverage,
                this.config.warningParseTime)
    /\ ~(getDetailedMetrics(this).p95ResponseTime > this.config.maxParseTime)

resetMetrics(this, time) ==
    [this EXCEPT
        !.operationTimes = <<>>, !.slowOperationCount = 0,
        !.timeoutOperationCount = 0, !.totalOperationCount = 0,
        !.lastResetTime = time]

(***************************************************************************)
(* Sample payloads of the direct cache calls                               *)
(***************************************************************************)
Block(sl, sc, el, ec, content) ==
    [startLine |-> sl, startCharacter |-> sc, endLine |-> el,
     endCharacter |-> ec, content |-> content]

SampleSymbols(v) ==
    IF v = 1 THEN <<Sym(<<"x">>, 1, 4), Sym(<<"x">>, 0, 7)>>
    ELSE <<Sym(<<"y">>, 0, 7)>>

SampleIndex(v) == createSymbolIndex(SampleSymbols(v))

SampleDocument(v) ==
    IF v = 1 THEN [jsBlocks |-> <<Block(0, 3, 1, 12, SampleSymbols(1))>>]
    ELSE [jsBlocks |-> <<Block(0, 3, 0, 15, SampleSymbols(2))>>]

Payloads == 1..2

(***************************************************************************)
(* The parser, the analyzer and the monitor as constructed                 *)
(***************************************************************************)
\* new SymbolAnalyzer()
NewAnalyzer == [symbols |-> EmptyMap]

\* new PerformanceMonitor({maxParseTime: 500, warningParseTime: 200,
\* enableLogging: false}), as the cache constructs it
NewMonitor ==
    PerformanceMonitor([maxParseTime |-> 500, warningParseTime |-> 200,
                        enableLogging |-> FALSE])

\* DocumentCacheManager.performanceMetrics as constructed (at time 0); the
\* parse times are not part of the model
NewMetrics ==
    [cacheHits |-> 0, cacheMisses |-> 0, totalRequests |-> 0,
     lastResetTime |-> 0]

countRequestHitsOnly(metrics, hit) ==
    [metrics EXCEPT !.totalRequests = @ + 1,
                    !.cacheHits = IF hit THEN @ + 1 ELSE @]

\* getSymbols / getParsedDocument: totalRequests++ on entry, cacheHits++
\* before a value is returned, cacheMisses++ before null is returned
countRequest(metrics, hit) ==
    [metrics EXCEPT !.totalRequests = @ + 1,
                    !.cacheHits = IF hit THEN @ + 1 ELSE @,
                    !.cacheMisses = IF hit THEN @ ELSE @ + 1]

resetPerformanceMetrics(at) == [NewMetrics EXCEPT !.lastResetTime = at]

\* getStats; documents is the list of the keys of the symbol cache
getStats(c, p, metrics) ==
    [size |-> Len(c), documents |-> [i \in 1..Len(c) |-> c[i].uri],
     parsedDocuments |-> Len(p),
     hitRate |-> IF metrics.totalRequests > 0
                 THEN Quotient(metrics.cacheHits, metrics.totalRequests)
                 ELSE Quotient(0, 1),
     performance |-> metrics]

\* new EJSCursorManager(provider): no timeout was set (handle 0); pending
\* holds the setTimeout callbacks of the host that were neither run nor
\* cleared, context the values given to setContext for
\* 'ejs.overDefinedVariable', in order; issued counts the timer handles.
\* moved (the last cursor move that was handled) and evaluated (the calls
\* of isOverDefinedVariable) are history
NewCursorManager ==
    [hoverTimeout |-> 0, isDisposed |-> FALSE, issued |-> 0, pending |-> {},
     context |-> <<>>, moved |-> <<>>, evaluated |-> <<>>]

\* the callback set by setTimeout(..., 100)
HoverTimer(handle, position, at) ==
    [handle |-> handle, position |-> position, due |-> at + HOVER_DELAY_MS]

\* clearTimeout(handle): a timer that ran or was cleared is not pending,
\* and clearing it again does nothing
clearTimeout(pending, handle) == { t \in pending : t.handle # handle }

\* the earlier timer is left to run
handleCursorPositionChangeKeeps(this, position, at) ==
    [this EXCEPT !.pending = @ \cup {HoverTimer(this.issued + 1, position, at)},
                 !.hoverTimeout = this.issued + 1,
                 !.issued = @ + 1,
                 !.moved = <<position, at>>]

handleCursorPositionChange(this, position, at) ==
    [this EXCEPT !.pending = clearTimeout(@, this.hoverTimeout)
                                \cup {HoverTimer(this.issued + 1, position, at)},
                 !.hoverTimeout = this.issued + 1,
                 !.issued = @ + 1,
                 !.moved = <<position, at>>]

\* the listener of onDidChangeTextEditorSelection
onDidChangeTextEditorSelection(this, languageId, position, at) ==
    IF this.isDisposed THEN this
    ELSE IF languageId # "ejs" THEN this
    ELSE handleCursorPositionChange(this, position, at)

\* over is what isOverDefinedVariable does: it returns true or false, or
\* it throws and the error is logged
updateCursorStyle(this, position, over, at) ==
    IF this.isDisposed THEN this
    ELSE [this EXCEPT !.evaluated = Append(@, <<position, at>>),
                      !.context = IF over = "throws" THEN @
                                  ELSE Append(@, over = "true")]

disposeCursorManager(this) ==
    [this EXCEPT !.isDisposed = TRUE,
                 !.pending = clearTimeout(@, this.hoverTimeout),
                 !.context = Append(@, FALSE)]

\* nothing was parsed or analysed yet; earlier is history: the symbols the
\* analyzer returned for the templates opened before
NoOutput ==
    [op |-> "none", blocks |-> <<>>, symbols |-> <<>>, name |-> <<>>,
     found |-> Null, earlier |-> <<>>,
     position |-> [line |-> 0, character |-> 0]]

(***************************************************************************)
(* Initial state: a freshly constructed DocumentCacheManager               *)
(***************************************************************************)
\* the host document while only the cache API is exercised
Document(uri, version, jsBlocks) ==
    [uri |-> uri, version |-> version, languageId |-> "ejs",
     jsBlocks |-> jsBlocks]

NoRequest ==
    [position |-> [line |-> 0, character |-> 0], wordRange |-> NoWordRange,
     cancelled |-> FALSE, fault |-> "none", duration |-> 0]

NoQuery ==
    [id |-> 0, provider |-> "none", document |-> Document(1, 1, <<>>),
     request |-> NoRequest, started |-> 0,
     elapsed |-> 0, state |-> "idle", returned |-> "nothing",
     definitionPromise |-> Pending, timeoutPromise |-> Pending,
     result |-> Pending, parserCalls |-> 0, analyzerCalls |-> 0,
     faulted |-> FALSE]

NoCall == [op |-> "none", uri |-> 0, version |-> 0, value |-> Null]

Called(op, uri, version, value) ==
    [op |-> op, uri |-> uri, version |-> version, value |-> value]

InitCache ==
    /\ now = 0
    /\ cache = <<>>
    /\ parsedDocumentCache = <<>>
    /\ lastSet = [k \in {"symbols", "documents"} |-> [u \in Foreground |-> Null]]
    /\ calls = 0
    /\ ret = NoCall
    /\ doc = Document(1, 1, <<>>)
    /\ q = NoQuery
    /\ timers = {}
    /\ template = <<>>
    /\ analyzer = NewAnalyzer
    /\ monitor = NewMonitor
    /\ out = NoOutput
    /\ performanceMetrics = NewMetrics
    /\ cleanupTimer = TRUE
    /\ cursor = NewCursorManager

(***************************************************************************)
(* Direct calls of the cache API                                           *)
(***************************************************************************)
SetSymbols(u, v, p) ==
    /\ calls < MaxCalls
    /\ cache' = setSymbols(cache, u, v, SampleIndex(p), now)
    /\ calls' = calls + 1
    /\ ret' = Called("setSymbols", u, v, SampleIndex(p))
    /\ lastSet' = IF u \notin Foreground THEN lastSet
                  ELSE [lastSet EXCEPT !["symbols"][u] =
                          [version |-> v, value |-> SampleIndex(p)]]
    /\ UNCHANGED <<now, parsedDocumentCache>>
    /\ UNCHANGED <<queryVars, textVars, managerVars>>

SetParsedDocument(u, v, p) ==
    /\ calls < MaxCalls
    /\ parsedDocumentCache' =
          setParsedDocument(parsedDocumentCache, u, v, SampleDocument(p), now)
    /\ calls' = calls + 1
    /\ ret' = Called("setParsedDocument", u, v, SampleDocument(p))
    /\ lastSet' = IF u \notin Foreground THEN lastSet
                  ELSE [lastSet EXCEPT !["documents"][u] =
                          [version |-> v, value |-> SampleDocument(p)]]
    /\ UNCHANGED <<now, cache>>
    /\ UNCHANGED <<queryVars, textVars, managerVars>>

\* the call takes less than a millisecond: the duration recorded is 0
GetSymbols(u, v) ==
    /\ calls < MaxCalls
    /\ calls' = calls + 1
    /\ ret' = Called("getSymbols", u, v, getSymbols(cache, u, v))
    /\ performanceMetrics' =
          countRequest(performanceMetrics, getSymbols(cache, u, v) # Null)
    /\ monitor' = recordOperation(monitor, 0)
    /\ UNCHANGED <<now, cache, parsedDocumentCache, lastSet>>
    /\ UNCHANGED <<queryVars, template, analyzer, out, cleanupTimer, cursor>>

GetParsedDocument(u, v) ==
    /\ calls < MaxCalls
    /\ calls' = calls + 1
    /\ ret' = Called("getParsedDocument", u, v,
                     getParsedDocument(parsedDocumentCache, u, v, now))
    /\ performanceMetrics' =
          countRequest(performanceMetrics,
                       getParsedDocument(parsedDocumentCache, u, v, now) # Null)
    /\ monitor' = recordOperation(monitor, 0)
    /\ UNCHANGED <<now, cache, parsedDocumentCache, lastSet>>
    /\ UNCHANGED <<queryVars, template, analyzer, out, cleanupTimer, cursor>>

\* getStats reads; it is not counted among the calls
GetStats ==
    /\ ret.op # "getStats"
    /\ ret' = Called("getStats", 0, 0,
                     getStats(cache, parsedDocumentCache, performanceMetrics))
    /\ UNCHANGED <<now, cache, parsedDocumentCache, lastSet, calls>>
    /\ UNCHANGED <<queryVars, textVars, managerVars>>

ResetPerformanceMetrics ==
    /\ calls < MaxCalls
    /\ performanceMetrics.totalRequests > 0
    /\ calls' = calls + 1
    /\ ret' = Called("resetPerformanceMetrics", 0, 0, Null)
    /\ performanceMetrics' = resetPerformanceMetrics(now)
    /\ UNCHANGED <<now, cache, parsedDocumentCache, lastSet>>
    /\ UNCHANGED <<queryVars, textVars, cleanupTimer, cursor>>

ClearAll ==
    /\ calls < MaxCalls
    /\ cache' = clearAll(cache, parsedDocumentCache).cache
    /\ parsedDocumentCache' =
          clearAll(cache, parsedDocumentCache).parsedDocumentCache
    /\ calls' = calls + 1
    /\ ret' = Called("clearAll", 0, 0, Null)
    /\ UNCHANGED <<now, lastSet>>
    /\ UNCHANGED <<queryVars, textVars, managerVars>>

\* NumBackground further documents, none of them cached, are analysed one
\* after the other within one millisecond: setParsedDocument and setSymbols
\* for each of them.  While the map stays below MAX_CACHE_SIZE entries each
\* call is a Map.set of a new key, that is an append; the calls beyond are
\* made one by one.
NewEntries(n, value, at) ==
    [i \in 1..n |-> [uri |-> NumForeground + i, version |-> 1,
                     value |-> value, timestamp |-> at]]

RECURSIVE PopulateSymbols(_, _, _, _)
PopulateSymbols(m, n, value, at) ==
    IF Len(m) + n <= MAX_CACHE_SIZE THEN m \o NewEntries(n, value, at)
    ELSE setSymbols(PopulateSymbols(m, n - 1, value, at), NumForeground + n, 1,
                    value, at)

RECURSIVE PopulateDocuments(_, _, _, _)
PopulateDocuments(m, n, value, at) ==
    IF Len(m) + n <= MAX_CACHE_SIZE THEN m \o NewEntries(n, value, at)
    ELSE setParsedDocument(PopulateDocuments(m, n - 1, value, at),
                           NumForeground + n, 1, value, at)

PopulateMany ==
    /\ calls < MaxCalls
    /\ MapKeys(cache) \cap Background = {}
    /\ MapKeys(parsedDocumentCache) \cap Background = {}
    /\ cache' = PopulateSymbols(cache, NumBackground, SampleIndex(2), now)
    /\ parsedDocumentCache' =
          PopulateDocuments(parsedDocumentCache, NumBackground,
                            SampleDocument(2), now)
    /\ calls' = calls + 1
    /\ ret' = Called("populateMany", 0, 0, Null)
    /\ UNCHANGED <<now, lastSet>>
    /\ UNCHANGED <<queryVars, textVars, managerVars>>

(***************************************************************************)
(* Eviction: the caches are filled to their limit by the analysis of many  *)
(* documents, and then single calls are made                               *)
(***************************************************************************)
MaxWaits == 1

\* documents analysed in one go, and a document that is opened later
PopulateSizes == {MAX_CACHE_SIZE \div 2 - 1, MAX_CACHE_SIZE \div 2}
LaterUri == NumForeground + NumBackground + 1

BackgroundCached(m) == Cardinality(MapKeys(m) \cap Background)

\* setParsedDocument and setSymbols for each of the next n background
\* documents, within one millisecond and while the maps stay within
\* MAX_CACHE_SIZE entries: every call is a Map.set of a new key, an append
NextEntries(m, n, value, at) ==
    [i \in 1..n |-> [uri |-> NumForeground + BackgroundCached(m) + i,
                     version |-> 1, value |-> value, timestamp |-> at]]

PopulateSome(n) ==
    /\ Len(cache) + n <= MAX_CACHE_SIZE
    /\ Len(parsedDocumentCache) + n <= MAX_CACHE_SIZE
    /\ BackgroundCached(cache) + n <= NumBackground
    /\ BackgroundCached(parsedDocumentCache) + n <= NumBackground
    /\ cache' = cache \o NextEntries(cache, n, SampleIndex(2), now)
    /\ parsedDocumentCache' =
          parsedDocumentCache
             \o NextEntries(parsedDocumentCache, n, SampleDocument(2), now)
    /\ ret' = Called("populateSome", 0, 0, Null)
    /\ UNCHANGED <<now, lastSet, calls>>
    /\ UNCHANGED <<queryVars, textVars, managerVars>>

\* a millisecond passes; no cleanup is due before the run ends
Wait ==
    /\ now < MaxWaits
    /\ now' = now + 1
    /\ ret' = Called("wait", 0, 0, Null)
    /\ UNCHANGED <<cache, parsedDocumentCache, lastSet, calls>>
    /\ UNCHANGED <<queryVars, textVars, managerVars>>

NextEvict ==
    \/ \E n \in PopulateSizes : PopulateSome(n)
    \/ Wait
    \/ \E u \in Foreground, v \in Versions : SetSymbols(u, v, v)
    \/ \E u \in Foreground, v \in Versions : SetParsedDocument(u, v, v)
    \/ SetSymbols(LaterUri, 1, 1)
    \/ SetParsedDocument(LaterUri, 1, 1)
    \/ \E u \in Foreground, v \in Versions : GetSymbols(u, v)
    \/ \E u \in Foreground, v \in Versions : GetParsedDocument(u, v)

SpecEvict == InitCache /\ [][NextEvict]_vars

(***************************************************************************)
(* The periodic cleanup: the setInterval callback of startCacheCleanup,    *)
(* and dispose                                                             *)
(***************************************************************************)
HalfInterval == CLEANUP_INTERVAL_MS \div 2

\* the next time at which the interval timer is due
NextDue(at) == (at \div CLEANUP_INTERVAL_MS + 1) * CLEANUP_INTERVAL_MS

\* time passes and no callback is due: the timer was cleared, or its next
\* due time is not reached
Elapse ==
    /\ now + HalfInterval <= MaxTime
    /\ cleanupTimer => now + HalfInterval < NextDue(now)
    /\ now' = now + HalfInterval
    /\ ret' = Called("elapse", 0, 0, Null)
    /\ UNCHANGED <<cache, parsedDocumentCache, lastSet, calls>>
    /\ UNCHANGED <<queryVars, textVars, managerVars>>

\* the timer is due and its callback runs cleanupExpiredEntries
Cleanup ==
    /\ cleanupTimer
    /\ NextDue(now) <= MaxTime
    /\ now' = NextDue(now)
    /\ parsedDocumentCache' =
          cleanupExpiredEntries(parsedDocumentCache, NextDue(now))
    /\ cache' = cleanupExpiredEntries(cache, NextDue(now))
    /\ ret' = Called("cleanupExpiredEntries", 0, 0, Null)
    /\ UNCHANGED <<lastSet, calls>>
    /\ UNCHANGED <<queryVars, textVars, managerVars>>

\* dispose: clearInterval, performanceMonitor.dispose (which only closes
\* the output channel), clearAll
Dispose ==
    /\ ret.op # "dispose"
    /\ cleanupTimer' = FALSE
    /\ cache' = clearAll(cache, parsedDocumentCache).cache
    /\ parsedDocumentCache' =
          clearAll(cache, parsedDocumentCache).parsedDocumentCache
    /\ ret' = Called("dispose", 0, 0, Null)
    /\ UNCHANGED <<now, lastSet, calls, performanceMetrics, cursor>>
    /\ UNCHANGED <<queryVars, textVars>>

NextSweep ==
    \/ Elapse
    \/ Cleanup
    \/ Dispose
    \/ \E u \in Foreground, v \in Versions : SetSymbols(u, v, v)
    \/ \E u \in Foreground, v \in Versions : SetParsedDocument(u, v, v)
    \/ SetSymbols(LaterUri, 1, 1)
    \/ SetParsedDocument(LaterUri, 1, 1)

SpecSweep == InitCache /\ [][NextSweep]_vars

(***************************************************************************)
(* The cursor manager: cursor moves in the editors, the debounce timer,    *)
(* dispose                                                                 *)
(***************************************************************************)
LanguageIds == {"ejs", "html"}
MovePositions == 1..2
Overs == {"true", "false", "throws"}
HalfDelay == HOVER_DELAY_MS \div 2

hostVars == <<cache, parsedDocumentCache, lastSet, calls, ret,
              performanceMetrics, cleanupTimer>>

ChangeSelection(languageId, position) ==
    /\ cursor.issued < MaxMoves
    /\ cursor' = onDidChangeTextEditorSelection(cursor, languageId, position,
                                                now)
    /\ UNCHANGED <<now, hostVars, queryVars, textVars>>

\* a timer that is due runs its callback
HoverTimerFire(over) ==
    \E t \in cursor.pending :
        /\ t.due <= now
        /\ cursor' = updateCursorStyle(
                        [cursor EXCEPT !.pending = @ \ {t}],
                        t.position, over, now)
        /\ UNCHANGED <<now, hostVars, queryVars, textVars>>

\* time passes while a timer is pending, up to the time it is due
HoverWait ==
    /\ cursor.pending # {}
    /\ \A t \in cursor.pending : now + HalfDelay <= t.due
    /\ now' = now + HalfDelay
    /\ UNCHANGED <<cursor, hostVars, queryVars, textVars>>

DisposeCursorManager ==
    /\ ~cursor.isDisposed
    /\ cursor' = disposeCursorManager(cursor)
    /\ UNCHANGED <<now, hostVars, queryVars, textVars>>

NextCursor ==
    \/ \E languageId \in LanguageIds, position \in MovePositions :
          ChangeSelection(languageId, position)
    \/ \E over \in Overs : HoverTimerFire(over)
    \/ HoverWait
    \/ DisposeCursorManager

SpecCursor == InitCache /\ [][NextCursor]_vars

(***************************************************************************)
(* Host notifications (activate)                                           *)
(***************************************************************************)
Languages == {"ejs", "html"}

\* the onDidChangeTextDocument listener of activate
onDidChangeTextDocument(c, p, uri, languageId) ==
    IF languageId = "ejs" THEN clearDocument(c, p, uri)
    ELSE [cache |-> c, parsedDocumentCache |-> p]

onDidCloseTextDocumentClears(c, p, uri) == clearDocument(c, p, uri)

\* activate registers no listener for the close notification: it runs no
\* code of the extension.
onDidCloseTextDocument(c, p, uri) == [cache |-> c, parsedDocumentCache |-> p]

Cached(u) == MapHas(cache, u) \/ MapHas(parsedDocumentCache, u)

DidChangeTextDocument(u, languageId) ==
    /\ calls < MaxCalls
    /\ cache' =
          onDidChangeTextDocument(cache, parsedDocumentCache, u, languageId).cache
    /\ parsedDocumentCache' =
          onDidChangeTextDocument(cache, parsedDocumentCache, u,
                                  languageId).parsedDocumentCache
    /\ calls' = calls + 1
    /\ ret' = Called("didChange", u, 0,
                     [languageId |-> languageId, cached |-> Cached(u)])
    /\ UNCHANGED <<now, lastSet>>
    /\ UNCHANGED <<queryVars, textVars, managerVars>>

DidCloseTextDocument(u) ==
    /\ calls < MaxCalls
    /\ cache' = onDidCloseTextDocument(cache, parsedDocumentCache, u).cache
    /\ parsedDocumentCache' =
          onDidCloseTextDocument(cache, parsedDocumentCache,
                                 u).parsedDocumentCache
    /\ calls' = calls + 1
    /\ ret' = Called("didClose", u, 0, [cached |-> Cached(u)])
    /\ UNCHANGED <<now, lastSet>>
    /\ UNCHANGED <<queryVars, textVars, managerVars>>

(***************************************************************************)
(* Time and the cleanup timer                                              *)
(***************************************************************************)
\* startCacheCleanup: the manager is constructed at time 0 and its
\* setInterval callback runs at every multiple of CLEANUP_INTERVAL_MS.
\* The map after the callbacks due in (from, to] have run, in order.
RECURSIVE CleanupsBetween(_, _, _)
CleanupsBetween(m, from, to) ==
    LET due == ((from \div CLEANUP_INTERVAL_MS) + 1) * CLEANUP_INTERVAL_MS
    IN  IF due > to THEN m
        ELSE CleanupsBetween(cleanupExpiredEntries(m, due), due, to)

\* TickStep milliseconds pass; the cleanup callbacks that fall due run at
\* their due times.
Tick ==
    /\ now + TickStep <= MaxTime
    /\ now' = now + TickStep
    /\ parsedDocumentCache' =
          CleanupsBetween(parsedDocumentCache, now, now + TickStep)
    /\ cache' = CleanupsBetween(cache, now, now + TickStep)
    /\ ret' = Called("tick", 0, 0, Null)
    /\ UNCHANGED <<calls, lastSet>>
    /\ UNCHANGED <<queryVars, textVars, managerVars>>

NextCache ==
    \/ \E u \in Foreground, v \in Versions, p \in Payloads : SetSymbols(u, v, p)
    \/ \E u \in Foreground, v \in Versions, p \in Payloads :
          SetParsedDocument(u, v, p)
    \/ \E u \in Foreground, v \in Versions : GetSymbols(u, v)
    \/ \E u \in Foreground, v \in Versions : GetParsedDocument(u, v)
    \/ \E u \in Foreground, l \in Languages : DidChangeTextDocument(u, l)
    \/ \E u \in Foreground : DidCloseTextDocument(u)
    \/ ClearAll
    \/ PopulateMany
    \/ Tick
    \/ GetStats
    \/ ResetPerformanceMetrics

SpecCache == InitCache /\ [][NextCache]_vars

(***************************************************************************)
(* Queries: the host calls a provider, the event loop runs the reaction of *)
(* the race and the timers.  A provider call runs to its return before     *)
(* anything else happens; the reactions of promises (microtasks) run       *)
(* before any timer callback or host event.                                *)
(***************************************************************************)
Position(l, c) == [line |-> l, character |-> c]

QueryBlocks ==
    { <<>>,
      << Block(0, 3, 0, 20, <<Sym(<<"a">>, 0, 9)>>),
         Block(2, 3, 4, 2, <<Sym(<<"b">>, 3, 4), Sym(<<"a">>, 3, 0)>>) >> }
Positions == { Position(0, 1), Position(0, 9), Position(3, 4) }
WordRanges ==
    { NoWordRange, WordRange(<<"a">>), WordRange(<<"c">>),
      WordRange(<<"i", "f">>), WordRange(<<"1", "a">>) }
\* the collaborator call that throws during the query, if any
Faults ==
    {"none", "parser", "analyzer", "getParsedDocument", "setParsedDocument",
     "getWordRangeAtPosition", "recordParseTime"}
Durations == {0, 600}
\* the requests the host makes: every cursor and word with a parser that
\* answers at once, a slow parser on a declared and on an undeclared word,
\* inside and outside a fragment, a cancelled request for each parse time,
\* and one request per collaborator that throws
Requests ==
    [position : Positions, wordRange : WordRanges, cancelled : {FALSE},
     fault : {"none"}, duration : {0}]
    \cup [position : {Position(0, 1), Position(0, 9)},
          wordRange : {WordRange(<<"a">>), WordRange(<<"c">>)},
          cancelled : {FALSE}, fault : {"none"}, duration : Durations \ {0}]
    \cup [position : {Position(0, 9)}, wordRange : {WordRange(<<"a">>)},
          cancelled : {TRUE}, fault : {"none"}, duration : Durations]
    \cup [position : {Position(0, 9)}, wordRange : {WordRange(<<"a">>)},
          cancelled : {FALSE}, fault : Faults \ {"none"}, duration : {0}]

InitQuery ==
    /\ now = 0
    /\ cache = <<>>
    /\ parsedDocumentCache = <<>>
    /\ lastSet = [k \in {"symbols", "documents"} |-> [u \in Foreground |-> Null]]
    /\ calls = 0
    /\ ret = NoCall
    /\ doc \in { Document(1, 1, b) : b \in QueryBlocks }
    /\ q = NoQuery
    /\ timers = {}
    /\ template = <<>>
    /\ analyzer = NewAnalyzer
    /\ monitor = NewMonitor
    /\ out = NoOutput
    /\ performanceMetrics = NewMetrics
    /\ cleanupTimer = TRUE
    /\ cursor = NewCursorManager

\* the state after a provider call returned r
Invoke(provider, request, r) ==
    /\ calls < MaxQueries
    /\ q.state \in {"idle", "settled"}
    /\ q' = [id |-> calls + 1, provider |-> provider, document |-> doc,
             request |-> request, started |-> now, elapsed |-> r.elapsed,
             state |-> IF r.returned = "promise" THEN "pending" ELSE "settled",
             returned |-> r.returned,
             definitionPromise |-> r.definitionPromise,
             timeoutPromise |-> Pending,
             result |-> IF r.returned = "promise" THEN Pending
                        ELSE IF r.returned = "null" THEN Fulfilled(Null)
                        ELSE IF r.returned = "threw" THEN Rejected
                        ELSE r.definitionPromise,
             parserCalls |-> r.parserCalls,
             analyzerCalls |-> r.analyzerCalls,
             faulted |-> r.faulted]
    /\ cache' = r.cache
    /\ parsedDocumentCache' = r.parsedDocumentCache
    /\ now' = now + r.elapsed
    /\ timers' = IF r.timer
                 THEN timers \cup {[id |-> calls + 1, due |-> now + TIMEOUT_MS]}
                 ELSE timers
    /\ calls' = calls + 1
    /\ UNCHANGED <<lastSet, ret, doc, textVars, managerVars>>

ProvideDefinition(request) ==
    Invoke("definition", request,
           provideDefinition(cache, parsedDocumentCache, doc, request, now))

ProvideHover(request) ==
    Invoke("hover", request,
           provideHover(cache, parsedDocumentCache, doc, request, now))

ProvideDocumentHighlights(request) ==
    Invoke("highlights", request,
           provideDocumentHighlights(cache, parsedDocumentCache, doc, request,
                                     now))

\* the reaction Promise.race registered on its two promises
RaceReaction ==
    /\ q.state = "pending"
    /\ LET r == promiseRace(q.definitionPromise, q.timeoutPromise)
       IN  q' = [q EXCEPT !.result = r,
                          !.state = IF r.settled THEN "settled" ELSE "waiting"]
    /\ UNCHANGED <<cacheVars, lastSet, calls, ret, doc, timers, textVars, managerVars>>

\* the callback of setTimeout(() => resolve(null), 500), and then the
\* reaction of the race if it is still pending
TimerFire(t) ==
    /\ t \in timers
    /\ now >= t.due
    /\ q.state # "pending"
    /\ timers' = timers \ {t}
    /\ q' = IF t.id # q.id THEN q
            ELSE LET fired == Fulfilled(Null)
                     r == IF q.result.settled THEN q.result
                          ELSE promiseRace(q.definitionPromise, fired)
                 IN  [q EXCEPT !.timeoutPromise = fired, !.result = r,
                               !.state = IF r.settled THEN "settled"
                                         ELSE "waiting"]
    /\ UNCHANGED <<cacheVars, lastSet, calls, ret, doc, textVars, managerVars>>

\* nothing to run: time passes until the next timer is due
AdvanceToTimer ==
    /\ q.state # "pending"
    /\ timers # {}
    /\ \A t \in timers : now < t.due
    /\ now' = CHOOSE d \in {t.due : t \in timers} :
                  \A t \in timers : d <= t.due
    /\ UNCHANGED <<cache, parsedDocumentCache, lastSet, calls, ret, doc, q,
                   timers, textVars, managerVars>>

\* the user edits the EJS document: the host bumps its version and notifies
\* the listener registered by activate
EditDocument(jsBlocks) ==
    /\ q.state # "pending"
    /\ doc.version < MaxVersion
    /\ doc' = Document(doc.uri, doc.version + 1, jsBlocks)
    /\ LET r == onDidChangeTextDocument(cache, parsedDocumentCache, doc.uri,
                                        doc.languageId)
       IN  /\ cache' = r.cache
           /\ parsedDocumentCache' = r.parsedDocumentCache
    /\ UNCHANGED <<now, lastSet, calls, ret, q, timers, textVars, managerVars>>

\* Every run of SpecQuery ends before the first cleanup of the cache is due.
NextQuery ==
    \/ \E request \in Requests : ProvideDefinition(request)
    \/ \E request \in Requests : ProvideHover(request)
    \/ \E request \in Requests : ProvideDocumentHighlights(request)
    \/ RaceReaction
    \/ \E t \in timers : TimerFire(t)
    \/ AdvanceToTimer
    \/ \E b \in QueryBlocks : EditDocument(b)

SpecQuery == InitQuery /\ [][NextQuery]_vars

\* the event loop runs a queued reaction
FairSpecQuery == SpecQuery /\ WF_vars(RaceReaction)

(***************************************************************************)
(* Lookups: one document holding any list of declarations, and go to       *)
(* definition on a name                                                    *)
(***************************************************************************)
SymbolNames == { <<"a">>, <<"b">> }
SymbolLines == {0, 1}
SymbolCharacters == {3, 9}
SymbolUniverse ==
    { Sym(n, l, c) : n \in SymbolNames, l \in SymbolLines,
                     c \in SymbolCharacters }
SymbolLists == UNION { [1..k -> SymbolUniverse] : k \in 0..MaxSymbols }

LookupRequest(name) ==
    [position |-> Position(0, 5), wordRange |-> WordRange(name),
     cancelled |-> FALSE, fault |-> "none", duration |-> 0]

InitLookup ==
    /\ now = 0
    /\ cache = <<>>
    /\ parsedDocumentCache = <<>>
    /\ lastSet = [k \in {"symbols", "documents"} |-> [u \in Foreground |-> Null]]
    /\ calls = 0
    /\ ret = NoCall
    /\ doc \in { Document(1, 1, <<Block(0, 2, 1, 30, S)>>) : S \in SymbolLists }
    /\ q = NoQuery
    /\ timers = {}
    /\ template = <<>>
    /\ analyzer = NewAnalyzer
    /\ monitor = NewMonitor
    /\ out = NoOutput
    /\ performanceMetrics = NewMetrics
    /\ cleanupTimer = TRUE
    /\ cursor = NewCursorManager

NextLookup ==
    \/ \E name \in SymbolNames : ProvideDefinition(LookupRequest(name))
    \/ RaceReaction
    \/ \E t \in timers : TimerFire(t)
    \/ AdvanceToTimer

SpecLookup == InitLookup /\ [][NextLookup]_vars

(***************************************************************************)
(* Resolution: the three providers on one document whose declarations      *)
(* carry their kind, so that declarations at the same place differ         *)
(***************************************************************************)
SymbolKinds == {"variable", "parameter"}
KindedUniverse ==
    { SymOfKind(<<"a">>, l, c, kind) :
        l \in SymbolLines, c \in SymbolCharacters, kind \in SymbolKinds }
    \cup { SymOfKind(<<"b">>, 0, 3, "variable") }
KindedLists == UNION { [1..k -> KindedUniverse] : k \in 0..MaxSymbols }

\* a declared name with several declarations, one with a single one, and an
\* undeclared one
ResolveNames == { <<"a">>, <<"b">>, <<"c">> }

InitResolve ==
    /\ now = 0
    /\ cache = <<>>
    /\ parsedDocumentCache = <<>>
    /\ lastSet = [k \in {"symbols", "documents"} |-> [u \in Foreground |-> Null]]
    /\ calls = 0
    /\ ret = NoCall
    /\ doc \in { Document(1, 1, <<Block(0, 2, 1, 30, S)>>) : S \in KindedLists }
    /\ q = NoQuery
    /\ timers = {}
    /\ template = <<>>
    /\ analyzer = NewAnalyzer
    /\ monitor = NewMonitor
    /\ out = NoOutput
    /\ performanceMetrics = NewMetrics
    /\ cleanupTimer = TRUE
    /\ cursor = NewCursorManager

NextResolve ==
    \/ \E name \in ResolveNames : ProvideDefinition(LookupRequest(name))
    \/ \E name \in ResolveNames : ProvideHover(LookupRequest(name))
    \/ \E name \in ResolveNames : ProvideDocumentHighlights(LookupRequest(name))
    \/ RaceReaction
    \/ \E t \in timers : TimerFire(t)
    \/ AdvanceToTimer

SpecResolve == InitResolve /\ [][NextResolve]_vars

(***************************************************************************)
(* The fragment under the cursor: one document holding any short list of   *)
(* fragments, and a cursor anywhere around them                            *)
(***************************************************************************)
MaxBlocks == 2
BlockLines == 0..2
BlockCharacters == {1, 3}
CursorCharacters == 0..4

\* fragments as the parser places them: the end is not before the start
BlockUniverse ==
    { Block(sl, sc, el, ec, <<Sym(<<"a">>, sl, sc)>>) :
        sl \in BlockLines, sc \in BlockCharacters,
        el \in BlockLines, ec \in BlockCharacters }
BlocksAsParsed ==
    { b \in BlockUniverse :
        \/ b.startLine < b.endLine
        \/ b.startLine = b.endLine /\ b.startCharacter <= b.endCharacter }
BlockLists == UNION { [1..k -> BlocksAsParsed] : k \in 0..MaxBlocks }
CursorPositions ==
    { [line |-> l, character |-> c] : l \in BlockLines, c \in CursorCharacters }

CursorRequest(position) ==
    [position |-> position, wordRange |-> WordRange(<<"a">>),
     cancelled |-> FALSE, fault |-> "none", duration |-> 0]

InitBlocks ==
    /\ now = 0
    /\ cache = <<>>
    /\ parsedDocumentCache = <<>>
    /\ lastSet = [k \in {"symbols", "documents"} |-> [u \in Foreground |-> Null]]
    /\ calls = 0
    /\ ret = NoCall
    /\ doc \in { Document(1, 1, blocks) : blocks \in BlockLists }
    /\ q = NoQuery
    /\ timers = {}
    /\ template = <<>>
    /\ analyzer = NewAnalyzer
    /\ monitor = NewMonitor
    /\ out = NoOutput
    /\ performanceMetrics = NewMetrics
    /\ cleanupTimer = TRUE
    /\ cursor = NewCursorManager

\* one call per run: either the function alone or a query of the provider
FindBlockAtPosition(position) ==
    /\ out.op = "none"
    /\ q.id = 0
    /\ out' = [NoOutput EXCEPT
                  !.op = "findBlockAtPosition", !.position = position,
                  !.found = findBlockAtPosition(doc.jsBlocks, position)]
    /\ UNCHANGED <<managerVars, cacheVars, queryVars, template, analyzer, monitor>>

NextBlocks ==
    \/ \E position \in CursorPositions : FindBlockAtPosition(position)
    \/ \E position \in CursorPositions :
          /\ out.op = "none"
          /\ q.id = 0
          /\ ProvideDefinition(CursorRequest(position))
    \/ RaceReaction
    \/ \E t \in timers : TimerFire(t)
    \/ AdvanceToTimer

SpecBlocks == InitBlocks /\ [][NextBlocks]_vars

(***************************************************************************)
(* The parser on every short template                                      *)
(***************************************************************************)
\* the state of the extension host while only the parser and the analyzer
\* are exercised
InitHost ==
    /\ now = 0
    /\ cache = <<>>
    /\ parsedDocumentCache = <<>>
    /\ lastSet = [k \in {"symbols", "documents"} |-> [u \in Foreground |-> Null]]
    /\ calls = 0
    /\ ret = NoCall
    /\ doc = Document(1, 1, <<>>)
    /\ q = NoQuery
    /\ timers = {}
    /\ performanceMetrics = NewMetrics
    /\ cleanupTimer = TRUE
    /\ cursor = NewCursorManager

\* what the templates of the parser runs are made of
Pieces ==
    { <<"<", "%">>,
      <<"%", ">">>,
      <<"=">>,
      <<"-">>,
      <<" ">>,
      <<"\n">>,
      <<"a">> }

MaxPieces == 5

RECURSIVE TextsOf(_)
TextsOf(n) ==
    IF n = 0 THEN {<<>>}
    ELSE TextsOf(n - 1) \cup {t \o p : t \in TextsOf(n - 1), p \in Pieces}

ParserTexts == TextsOf(MaxPieces)

InitParser ==
    /\ InitHost
    /\ template \in ParserTexts
    /\ analyzer = NewAnalyzer
    /\ monitor = NewMonitor
    /\ out = NoOutput

\* parser.extractJavaScriptBlocks(template)
ExtractJavaScriptBlocks ==
    /\ out.op = "none"
    /\ out' = [out EXCEPT !.op = "extractJavaScriptBlocks",
                          !.blocks = extractJavaScriptBlocks(template)]
    /\ UNCHANGED <<managerVars, cacheVars, queryVars, template, analyzer, monitor>>

NextParser == ExtractJavaScriptBlocks

SpecParser == InitParser /\ [][NextParser]_vars

(***************************************************************************)
(* The parser and one SymbolAnalyzer on templates of a few statements      *)
(***************************************************************************)
Statements ==
    { <<"v", "a", "r", " ", "a", " ", "=", " ", "1">>,
      <<"l", "e", "t", " ", "a">>,
      <<"c", "o", "n", "s", "t", " ", "{", "a", ",", " ", "b", "}", " ", "=",
        " ", "o">>,
      <<"v", "a", "r", " ", "[", "b", ",", " ", "i", "n", "]", " ", "=", " ",
        "o">>,
      <<"f", "u", "n", "c", "t", "i", "o", "n", " ", "f", "(", "a", ",", " ",
        "b", ")">>,
      <<"(", "a", ",", " ", "b", ")", " ", "=", ">", " ", "a">>,
      <<"b", " ", "=", ">", " ", "b">>,
      <<"v", "a", "r", " ", "i", "n", " ", "=", " ", "1">>,
      <<"f", "u", "n", "c", "t", "i", "o", "n", " ", "f", "(", "i", "n",
        ")">>,
      <<"a", " ", "=", " ", "b">> }

\* between two statements: in one line, in two lines, in two tags
Separators ==
    { <<";", " ">>, <<"\n">>, <<" ", "%", ">", "\n", "<", "%", " ">> }

MaxStatements == 2

RECURSIVE CodeOf(_)
CodeOf(n) ==
    IF n = 1 THEN Statements
    ELSE CodeOf(n - 1)
         \cup {c \o sep \o st : c \in CodeOf(n - 1), sep \in Separators,
                               st \in Statements}

AnalyzerTexts ==
    { <<"<", "%", " ">> \o c \o <<" ", "%", ">">> : c \in CodeOf(MaxStatements) }

\* the templates opened after the first one, on the same analyzer
LaterTexts ==
    { <<"<", "%", " ">> \o c \o <<" ", "%", ">">> :
        c \in { <<"l", "e", "t", " ", "b">>,
                <<"x", " ", "=", " ", "1">> } }

MaxAnalyses == 2

\* the names findDefinition is asked for
AnalyzerNames == { <<"a">>, <<"b">>, <<"i", "n">> }

InitAnalyzer ==
    /\ InitHost
    /\ template \in AnalyzerTexts
    /\ analyzer = NewAnalyzer
    /\ monitor = NewMonitor
    /\ out = NoOutput

\* analyzer.analyzeSymbols(blocks) on the blocks the parser returned
AnalyzeSymbols ==
    /\ out.op = "extractJavaScriptBlocks"
    /\ calls < MaxAnalyses
    /\ \E r \in {SymbolAnalyzer_analyzeSymbols(analyzer, out.blocks)} :
          /\ analyzer' = r.this
          /\ out' = [out EXCEPT !.op = "analyzeSymbols",
                                !.symbols = r.allSymbols]
    /\ calls' = calls + 1
    /\ UNCHANGED <<now, cache, parsedDocumentCache, lastSet, ret, queryVars,
                   template, monitor, managerVars>>

\* analyzer.findDefinition(name, position)
FindDefinition(name) ==
    /\ out.op = "analyzeSymbols"
    /\ out' = [out EXCEPT !.op = "findDefinition", !.name = name,
                          !.found = SymbolAnalyzer_findDefinition(analyzer,
                                                                  name)]
    /\ UNCHANGED <<managerVars, cacheVars, queryVars, template, analyzer, monitor>>

\* another template is opened; the analyzer is the same instance
OpenTemplate(t) ==
    /\ out.op \in {"analyzeSymbols", "findDefinition"}
    /\ calls < MaxAnalyses
    /\ template' = t
    /\ out' = [NoOutput EXCEPT !.earlier = out.earlier \o out.symbols]
    /\ UNCHANGED <<managerVars, cacheVars, queryVars, analyzer, monitor>>

NextAnalyzer ==
    \/ ExtractJavaScriptBlocks
    \/ AnalyzeSymbols
    \/ \E name \in AnalyzerNames : FindDefinition(name)
    \/ \E t \in LaterTexts : OpenTemplate(t)

SpecAnalyzer == InitAnalyzer /\ [][NextAnalyzer]_vars

(***************************************************************************)
(* One PerformanceMonitor: operations are recorded, the metrics are reset  *)
(* and the assessment is asked for                                         *)
(***************************************************************************)
\* the largest configured sampleSize and the number of recorded operations
MaxSampleSize == 3
MaxOperations == 20

\* durations below the warning threshold, between the two thresholds and
\* above the hard threshold
OperationTimes == {0, 250, 600}

InitMonitor ==
    /\ InitHost
    /\ template = <<>>
    /\ analyzer = NewAnalyzer
    /\ \E sampleSize \in 1..MaxSampleSize :
           monitor = PerformanceMonitor([maxParseTime |-> 500,
                                         warningParseTime |-> 200,
                                         sampleSize |-> sampleSize,
                                         enableLogging |-> FALSE])
    /\ out = NoOutput

RecordOperation(duration) ==
    /\ monitor.totalOperationCount < MaxOperations
    /\ monitor' = recordOperation(monitor, duration)
    /\ out' = [NoOutput EXCEPT !.op = "recordOperation",
                               !.found = [value |-> duration]]
    /\ UNCHANGED <<managerVars, cacheVars, queryVars, template, analyzer>>

IsPerformanceAcceptable ==
    /\ out.op # "isPerformanceAcceptable"
    /\ out' = [NoOutput EXCEPT !.op = "isPerformanceAcceptable",
                               !.found = [value |-> isPerformanceAcceptable(monitor)]]
    /\ UNCHANGED <<managerVars, cacheVars, queryVars, template, analyzer, monitor>>

ResetMetrics ==
    /\ monitor.totalOperationCount > 0
    /\ monitor' = resetMetrics(monitor, now)
    /\ out' = [NoOutput EXCEPT !.op = "resetMetrics"]
    /\ UNCHANGED <<managerVars, cacheVars, queryVars, template, analyzer>>

GetDetailedMetrics ==
    /\ out.op # "getDetailedMetrics"
    /\ out' = [NoOutput EXCEPT !.op = "getDetailedMetrics",
                               !.found = getDetailedMetrics(monitor)]
    /\ UNCHANGED <<managerVars, cacheVars, queryVars, template, analyzer, monitor>>

NextMonitor ==
    \/ \E duration \in OperationTimes : RecordOperation(duration)
    \/ IsPerformanceAcceptable
    \/ GetDetailedMetrics
    \/ ResetMetrics

SpecMonitor == InitMonitor /\ [][NextMonitor]_vars

(***************************************************************************)
(* Claims about the cache, checked under SpecCache                         *)
(***************************************************************************)
IsGet == ret.op \in {"getSymbols", "getParsedDocument"}

\* the map a get call reads and the history of the sets into it
MapRead == IF ret.op = "getSymbols" THEN cache ELSE parsedDocumentCache
SetRead == IF ret.op = "getSymbols" THEN lastSet["symbols"][ret.uri]
           ELSE lastSet["documents"][ret.uri]

StoredWithVersion(m, uri, version) ==
    \E i \in 1..Len(m) : m[i].uri = uri /\ m[i].version = version

\* C2: getSymbols(uri, v) and getParsedDocument(uri, v) return a non-null
\* value only if the entry now stored for uri was written with version v,
\* the value returned is the value of the last set for that uri, and a
\* request with a version other than the stored one returns null.
C2_VersionMatch ==
    IsGet =>
      /\ ret.value # Null =>
            /\ StoredWithVersion(MapRead, ret.uri, ret.version)
            /\ SetRead # Null
            /\ SetRead.version = ret.version
            /\ SetRead.value = ret.value
      /\ ~StoredWithVersion(MapRead, ret.uri, ret.version) => ret.value = Null

\* a hit at version 2 as the third call: two calls came before the get
C2_Witness ==
    /\ ret.op = "getSymbols"
    /\ ret.value # Null
    /\ ret.version = 2
    /\ calls = 3

\* C3 (as claimed): no get returns an entry older than the TTL.
C3_NoExpiredHit ==
    (IsGet /\ ret.value # Null) =>
      \A i \in 1..Len(MapRead) :
         MapRead[i].uri = ret.uri => now - MapRead[i].timestamp <= CACHE_TTL_MS

\* C4: a text change of EJS document X removes X from both maps and leaves
\* the entries of every other URI unchanged; the next get for X is a miss.
C4_ChangeStep ==
    /\ calls' = calls + 1
    /\ ret'.op = "didChange"
    /\ ret'.value.languageId = "ejs"

C4_ChangeClears ==
    [][ /\ C4_ChangeStep =>
             /\ ~MapHas(cache', ret'.uri)
             /\ ~MapHas(parsedDocumentCache', ret'.uri)
             /\ \A w \in (Foreground \cup Background) \ {ret'.uri} :
                   /\ MapGet(cache', w) = MapGet(cache, w)
                   /\ MapGet(parsedDocumentCache', w) =
                        MapGet(parsedDocumentCache, w)
             /\ Len(cache') = Len(cache) - (IF MapHas(cache, ret'.uri) THEN 1 ELSE 0)
        /\ ( /\ ret.op = "didChange"
             /\ ret.value.languageId = "ejs"
             /\ calls' = calls + 1
             /\ ret'.op \in {"getSymbols", "getParsedDocument"}
             /\ ret'.uri = ret.uri ) => ret'.value = Null
      ]_vars

\* the change notification found X cached and other entries stay cached
C4_Witness ==
    /\ ret.op = "didChange"
    /\ ret.value.languageId = "ejs"
    /\ ret.value.cached
    /\ Len(cache) > 0
    /\ Len(parsedDocumentCache) > 0

C6_Bounded ==
    /\ Len(cache) <= MAX_CACHE_SIZE
    /\ Len(parsedDocumentCache) <= MAX_CACHE_SIZE

\* a set that found its map full: the oldest fifth is gone, the key is in
C6_Witness ==
    /\ ret.op = "setSymbols"
    /\ Len(cache) = MAX_CACHE_SIZE - CeilFifth(MAX_CACHE_SIZE) + 1
    /\ Len(parsedDocumentCache) = MAX_CACHE_SIZE

(***************************************************************************)
(* Claims about the queries                                                *)
(***************************************************************************)
PositionLeq(a, b) ==
    a.line < b.line \/ (a.line = b.line /\ a.character <= b.character)

\* the declarations of a name in a document, as places in the analyzer's list
DeclarationsOf(document, name) ==
    LET S == analyzeSymbols(document.jsBlocks)
    IN  { i \in 1..Len(S) : S[i].name = name }

IsFirstDeclaration(document, name, location) ==
    LET S == analyzeSymbols(document.jsBlocks)
    IN  \E i \in DeclarationsOf(document, name) :
          /\ location = [uri |-> document.uri, line |-> S[i].definition.line,
                         character |-> S[i].definition.character]
          /\ \A j \in DeclarationsOf(document, name) :
                PositionLeq(S[i].definition, S[j].definition)

BucketSorted(bucket) ==
    \A j, k \in 1..Len(bucket) :
       j < k => PositionLeq(bucket[j].definition, bucket[k].definition)

\* C1: every bucket of the index that createSymbolIndex builds from the
\* document's symbol list holds exactly the declarations of its name, sorted
\* ascending by (line, character); and go to definition on a declared name
\* resolves to the declaration with the smallest (line, character) of that
\* name.
C1_FirstDeclarationWins ==
    /\ \A e \in 1..Len(cache) :
          \A n \in DOMAIN cache[e].value.index :
             LET bucket == cache[e].value.index[n]
                 S == analyzeSymbols(doc.jsBlocks)
             IN  /\ BucketSorted(bucket)
                 /\ Len(bucket) = Cardinality(DeclarationsOf(doc, n))
                 /\ \A s \in SymbolUniverse :
                       Cardinality({j \in 1..Len(bucket) : bucket[j] = s})
                         = Cardinality({j \in 1..Len(S) : S[j] = s /\ s.name = n})
    /\ \A e \in 1..Len(cache) :
          DOMAIN cache[e].value.index
            = { n \in SymbolNames : DeclarationsOf(doc, n) # {} }
    /\ ( /\ q.provider = "definition"
         /\ q.state = "settled"
         /\ DeclarationsOf(q.document, q.request.wordRange.text) # {} )
       => /\ q.result.value # Null
          /\ IsFirstDeclaration(q.document, q.request.wordRange.text,
                                q.result.value)

\* the second lookup, served from the cached index, of a name whose later
\* declaration comes first in the list
C1_Witness ==
    /\ q.id = 2
    /\ q.state = "settled"
    /\ q.parserCalls = 0 /\ q.analyzerCalls = 0
    /\ q.request.wordRange.text = <<"a">>
    /\ analyzeSymbols(doc.jsBlocks)
         = <<Sym(<<"a">>, 1, 3), Sym(<<"b">>, 0, 3), Sym(<<"a">>, 0, 9)>>
    /\ q.result.value = [uri |-> 1, line |-> 0, character |-> 9]

InFragment(document, position) ==
    \E i \in 1..Len(document.jsBlocks) :
       LET b == document.jsBlocks[i]
       IN  /\ PositionLeq(Position(b.startLine, b.startCharacter), position)
           /\ PositionLeq(position, Position(b.endLine, b.endCharacter))

NoMatch(query) ==
    \/ ~InFragment(query.document, query.request.position)
    \/ ~query.request.wordRange.found
    \/ ~isValidIdentifier(query.request.wordRange.text)
    \/ DeclarationsOf(query.document, query.request.wordRange.text) = {}

\* C7: a query of any of the three providers whose cursor is in no
\* fragment, or on no word, or on a word that is not a valid non-keyword
\* identifier, or on an identifier without a declaration, does not throw,
\* does not reject, and settles with null (the recording of the parse time
\* in the finally block not throwing).
C7_NoMatchIsNull ==
    (q.provider # "none" /\ NoMatch(q) /\ q.request.fault # "recordParseTime") =>
        /\ q.returned # "threw"
        /\ ~q.definitionPromise.rejected
        /\ ~q.result.rejected
        /\ q.state = "settled" => q.result = Fulfilled(Null)

\* a hover on an undeclared identifier inside a fragment ran the whole
\* pipeline and resolved to null
C7_Witness ==
    /\ q.provider = "hover"
    /\ q.state = "settled"
    /\ q.returned = "promise"
    /\ InFragment(q.document, q.request.position)
    /\ q.request.wordRange = WordRange(<<"c">>)
    /\ q.analyzerCalls = 1
    /\ q.result = Fulfilled(Null)

\* a step that is a provider call with the cancellation token already set
C8_CancelledCall == q'.id # q.id /\ q'.request.cancelled

\* C8: a provider call entered with the cancellation token set returns a
\* plain null at once: the parser and the analyzer are not invoked, no time
\* passes, no timer is started and both caches are left as they were.
C8_CancelledDoesNothing ==
    [][C8_CancelledCall =>
         /\ q'.returned = "null"
         /\ q'.state = "settled"
         /\ q'.result = Fulfilled(Null)
         /\ q'.parserCalls = 0
         /\ q'.analyzerCalls = 0
         /\ cache' = cache
         /\ parsedDocumentCache' = parsedDocumentCache
         /\ now' = now
         /\ timers' = timers]_vars

\* a cancelled definition query as the second query, over a filled cache
C8_Witness ==
    /\ q.id = 2
    /\ q.provider = "definition"
    /\ q.request.cancelled
    /\ q.returned = "null"
    /\ cache # <<>>

\* C9: a definition or hover query whose analysis took longer than the
\* 500 ms of the timer resolves to null.
C9_TimeoutWins ==
    ( /\ q.returned = "promise"
      /\ q.state = "settled"
      /\ q.elapsed > TIMEOUT_MS )
    => q.result = Fulfilled(Null)

\* C10: every call of provideDefinition or provideHover settles: the plain
\* value or the promise it returned resolves, to a location, a hover or
\* null, and is not rejected (the recording of the parse time in the finally
\* block not throwing).
C10_EventuallySettles ==
    \A i \in 1..MaxQueries :
       ( /\ q.id = i
         /\ q.provider \in {"definition", "hover"}
         /\ q.request.fault # "recordParseTime" )
         ~> ( /\ q.id = i
              /\ q.state = "settled"
              /\ q.result.settled
              /\ ~q.result.rejected )

\* a query that missed the cache, spent more than the budget in the parser
\* and has settled
C10_Witness ==
    /\ q.provider \in {"definition", "hover"}
    /\ q.returned = "promise"
    /\ q.parserCalls = 1
    /\ q.elapsed > TIMEOUT_MS
    /\ q.state = "settled"
    /\ q.result.settled

(***************************************************************************)
(* Claims about collaborators that throw                                   *)
(***************************************************************************)
\* C11: a query during which a collaborator throws (the parser, the
\* analyzer, a cache lookup or store, the recording of the parse time, the
\* word range lookup) does not throw to the host, rejects no promise, and
\* settles with null.
C11_FaultIsNull ==
    (q.provider # "none" /\ q.faulted) =>
        /\ q.returned # "threw"
        /\ ~q.definitionPromise.rejected
        /\ ~q.result.rejected
        /\ q.state = "settled" => q.result = Fulfilled(Null)

\* the highlights the claim describes for a symbol: Write at its
\* declaration, Read at each of its references
WriteAndReads(symbol) ==
    [highlights |->
       <<[line |-> symbol.definition.line,
          character |-> symbol.definition.character, kind |-> "Write"]>>
       \o [i \in DOMAIN symbol.references |->
             [line |-> symbol.references[i].line,
              character |-> symbol.references[i].character, kind |-> "Read"]]]

\* the symbols of the name of the query that no other symbol of that name
\* precedes in the document
FirstDeclared(query) ==
    LET S == analyzeSymbols(query.document.jsBlocks)
        D == DeclarationsOf(query.document, query.request.wordRange.text)
    IN  { S[i] : i \in { d \in D : \A j \in D :
                            PositionLeq(S[d].definition, S[j].definition) } }

\* a highlights query that ran to its end: not cancelled, no collaborator
\* threw
HighlightsQuery ==
    q.provider = "highlights" /\ ~q.request.cancelled /\ ~q.faulted

\* C17: when a definition is found for the identifier under the cursor,
\* provideDocumentHighlights returns one Write highlight at the declaration
\* of the first-declared symbol of that name and one Read highlight for each
\* of that symbol's references; when none is found it returns null.
C17_WriteAndReads ==
    HighlightsQuery =>
        /\ q.returned = "value"
        /\ IF NoMatch(q) THEN q.result = Fulfilled(Null)
           ELSE \E symbol \in FirstDeclared(q) :
                    q.result = Fulfilled(WriteAndReads(symbol))

\* the identifier under the cursor has two declarations and the highlights
\* are those of one of them
C17_Witness ==
    /\ HighlightsQuery
    /\ ~NoMatch(q)
    /\ Cardinality(DeclarationsOf(q.document, q.request.wordRange.text)) = 2
    /\ q.result.value # Null
    /\ Len(q.result.value.highlights) = 2

(***************************************************************************)
(* Claims about the analyzer, checked under SpecAnalyzer                   *)
(***************************************************************************)
Analyzed == out.op \in {"analyzeSymbols", "findDefinition"}

\* the length characters of line `line` of t that start at `character`;
\* the empty string when there are not that many
TextAt(t, line, character, length) ==
    LET lines == split(t, "\n")
    IN  IF line + 1 \in DOMAIN lines
        THEN IF character + length <= Len(lines[line + 1])
             THEN substring(lines[line + 1], character, character + length)
             ELSE <<>>
        ELSE <<>>

\* C12: for every symbol analyzeSymbols produces from the fragments of a
\* text, the text on line definition.line from definition.character, for the
\* length of the name, is the symbol's name (every declaration form, every
\* line of a multi-line fragment).
C12_PositionPointsAtName ==
    Analyzed =>
        \A k \in DOMAIN out.symbols :
            TextAt(template, out.symbols[k].definition.line,
                   out.symbols[k].definition.character,
                   Len(out.symbols[k].name)) = out.symbols[k].name

\* C13: no symbol analyzeSymbols returns, through any of its rules, has a
\* name in the reserved keyword set.
C13_NoKeywordNames ==
    Analyzed => \A k \in DOMAIN out.symbols : out.symbols[k].name \notin Keywords

\* C19, first half: analyzeSymbols depends on its argument only: after any
\* history of calls on the instance, the list it returns and the map it
\* leaves are those a new instance produces for the same blocks.
\* Second half: findDefinition is answered from the symbols of this call.
C19_ArgumentOnly ==
    /\ Analyzed =>
          \E fresh \in {analyzeBlocks(NewAnalyzer, out.blocks)} :
              /\ out.symbols = fresh.allSymbols
              /\ analyzer = fresh.this
    /\ out.op = "findDefinition" =>
          IF \E k \in DOMAIN out.symbols : out.symbols[k].name = out.name
          THEN \E k \in DOMAIN out.symbols : out.found = out.symbols[k]
          ELSE out.found = Null

\* a name the earlier templates declared and this one does not is looked up
C19_Witness ==
    /\ out.op = "findDefinition"
    /\ out.found = Null
    /\ \E k \in DOMAIN out.earlier : out.earlier[k].name = out.name

\* the records of one name are in ascending order of declaration
NameAscending(symbols) ==
    \A i, j \in DOMAIN symbols :
        (i < j /\ symbols[i].name = symbols[j].name) =>
            PositionLeq(symbols[i].definition, symbols[j].definition)

\* C20: after analyzeSymbols on fragments in textual order the records of
\* any one name are in ascending declaration order (line, then character),
\* and findDefinition(name) returns the textually first declaration of name.
C20_TextualOrder ==
    /\ Analyzed => NameAscending(out.symbols)
    /\ (out.op = "findDefinition" /\ out.found # Null) =>
          \A k \in DOMAIN out.symbols :
              out.symbols[k].name = out.name =>
                  PositionLeq(out.found.definition, out.symbols[k].definition)

(***************************************************************************)
(* Claims about the parser, checked under SpecParser                       *)
(***************************************************************************)
Extracted == out.op = "extractJavaScriptBlocks"

\* the kind the opening delimiter at i gives a tag
KindAt(t, i) ==
    IF startsWith(t, <<"<", "%", "-">>, i) THEN "unescaped"
    ELSE IF startsWith(t, <<"<", "%", "=">>, i) THEN "output"
    ELSE "scriptlet"

OpenerLength(kind) == IF kind = "scriptlet" THEN 2 ELSE 3

\* the tag that opens at i and is closed by the %> at j
Tag(t, i, j) ==
    [start |-> i, end |-> j + 2, kind |-> KindAt(t, i),
     body |-> substring(t, i + OpenerLength(KindAt(t, i)), j)]

\* the index of the %> that closes the tag opened at i, or -1
ClosingOf(t, i) ==
    IF i = -1 THEN -1
    ELSE indexOfFrom(t, CloseDelimiter, i + OpenerLength(KindAt(t, i)))

\* the terminated tags of a text from index `from` on, left to right
RECURSIVE TagsFrom(_, _)
TagsFrom(t, from) ==
    With(indexOfFrom(t, <<"<", "%">>, from), LAMBDA i :
        With(ClosingOf(t, i), LAMBDA j :
            IF j = -1 THEN <<>>
            ELSE <<Tag(t, i, j)>> \o TagsFrom(t, j + 2)))

\* the index in the text of the place (line, character), or -1 when the text
\* has no such place
OffsetOf(t, line, character) ==
    LET lines == split(t, "\n")
        breaks == {i \in 1..Len(t) : t[i] = "\n"}
        start == IF line = 0 THEN 0
                 ELSE CHOOSE i \in breaks :
                          Cardinality({j \in breaks : j < i}) = line - 1
    IN  IF line + 1 \in DOMAIN lines
        THEN IF character <= Len(lines[line + 1]) THEN start + character
             ELSE -1
        ELSE -1

\* the block starts inside the tag
InTag(t, block, tag) ==
    With(OffsetOf(t, block.startLine, block.startCharacter), LAMBDA o :
        tag.start <= o /\ o < tag.end)

BlocksIn(t, blocks, tag) == {k \in DOMAIN blocks : InTag(t, blocks[k], tag)}

EmptyTags(tags) == {k \in DOMAIN tags : trim(tags[k].body) = <<>>}

\* C14: a tag of any of the three kinds whose body is empty or only
\* whitespace produces no fragment: no block of any tagType lies inside it.
C14_EmptyTagNoBlock ==
    Extracted =>
        With(TagsFrom(template, 0), LAMBDA tags :
            \A k \in EmptyTags(tags) :
                BlocksIn(template, out.blocks, tags[k]) = {})

\* C15: the three kinds are mutually exclusive: each terminated tag yields at
\* most one fragment, and its tagType is the one its opening delimiter gives.
C15_OneBlockPerTag ==
    Extracted =>
        With(TagsFrom(template, 0), LAMBDA tags :
            \A k \in DOMAIN tags :
                With(BlocksIn(template, out.blocks, tags[k]), LAMBDA inside :
                    /\ Cardinality(inside) <= 1
                    /\ \A b \in inside :
                          out.blocks[b].tagType = tags[k].kind))

NewlinesIn(s) == Cardinality({i \in 1..Len(s) : s[i] = "\n"})

\* the text between two places of it
TextBetween(t, from, to) ==
    IF from = -1 \/ to = -1 THEN <<>> ELSE substring(t, from, to)

RoundTrips(t, block) ==
    /\ block.endLine = block.startLine + NewlinesIn(block.content)
    /\ TextBetween(t, OffsetOf(t, block.startLine, block.startCharacter),
                   OffsetOf(t, block.endLine, block.endCharacter))
       = block.content

\* C16: for every fragment, single-line or multi-line, the text from
\* (startLine, startCharacter) to (endLine, endCharacter) is the fragment's
\* content, endLine is startLine plus the newlines of the content, and
\* endCharacter is a column of the end line.
C16_RoundTrip ==
    Extracted => \A k \in DOMAIN out.blocks : RoundTrips(template, out.blocks[k])

(***************************************************************************)
(* Claims about the performance monitor, checked under SpecMonitor         *)
(***************************************************************************)
Assessed == out.op = "isPerformanceAcceptable"

\* operations longer than maxParseTime over all recorded operations is at
\* most 5 % (no operation recorded: the rate is 0)
BreachRateWithin ==
    \/ monitor.totalOperationCount = 0
    \/ 100 * monitor.timeoutOperationCount <= 5 * monitor.totalOperationCount

\* the mean of the samples of the window is at most the warning threshold
\* (an empty window has the average 0)
AverageWithin ==
    \/ monitor.operationTimes = <<>>
    \/ Sum(monitor.operationTimes)
           <= monitor.config.warningParseTime * Len(monitor.operationTimes)

\* the samples v of the window with at least 95 % of the samples <= v
CoversNinetyFive(times) ==
    {times[k] : k \in {k \in DOMAIN times :
        100 * Cardinality({j \in DOMAIN times : times[j] <= times[k]})
            >= 95 * Len(times)}}

\* the 95th percentile of the window (nearest rank): the smallest sample
\* that has at least 95 % of the samples at or below it
Percentile95(times) == SetMin(CoversNinetyFive(times))

PercentileWithin ==
    \/ monitor.operationTimes = <<>>
    \/ Percentile95(monitor.operationTimes) <= monitor.config.maxParseTime

\* C18: isPerformanceAcceptable() is true exactly when the breach rate is
\* at most 5 %, the rolling average of the window is at most the warning
\* threshold and the 95th-percentile sample of the window is at most the
\* hard threshold.
C18_AcceptableIffThree ==
    Assessed =>
        (out.found.value
            <=> (BreachRateWithin /\ AverageWithin /\ PercentileWithin))

\* the same with the sample the code picks: the one at the 0-based place
\* max(0, floor(0.95 n) - 1) of the sorted window
PickedWithin ==
    sampleAt(sortTimes(monitor.operationTimes),
             p95Index(Len(monitor.operationTimes)))
        <= monitor.config.maxParseTime

AcceptableIffPicked ==
    Assessed =>
        (out.found.value <=> (BreachRateWithin /\ AverageWithin /\ PickedWithin))

\* one operation in twenty was over the hard threshold and it is in the
\* window, whose average is within the warning threshold
LoneBreachInWindow ==
    /\ Assessed
    /\ BreachRateWithin
    /\ AverageWithin
    /\ \E k \in DOMAIN monitor.operationTimes :
           monitor.operationTimes[k] > monitor.config.maxParseTime

\* the last count samples of a sequence
LastSamples(times, count) ==
    IF Len(times) <= count THEN times
    ELSE SubSeq(times, Len(times) - count + 1, Len(times))

Recorded == out.op = "recordOperation"

\* a step that is one recordOperation call
RecordStep ==
    /\ out'.op = "recordOperation"
    /\ monitor' # monitor

Measured == out.op = "getDetailedMetrics"

\* the sample of rank floor(percent n / 100), or of rank 1 when that is
\* less, among the samples of the window in ascending order: what the
\* metrics call p95 and p99
RankedSample(times, percent) ==
    IF (percent * Len(times)) \div 100 <= 1 THEN SetMin({times[k] : k \in DOMAIN times})
    ELSE CHOOSE v \in {times[k] : k \in DOMAIN times} :
            /\ Cardinality({k \in DOMAIN times : times[k] < v})
                  < (percent * Len(times)) \div 100
            /\ Cardinality({k \in DOMAIN times : times[k] <= v})
                  >= (percent * Len(times)) \div 100

\* C24: the window holds at most sampleSize samples, the most recently
\* recorded ones in arrival order: each recordOperation appends its sample
\* and, beyond the limit, drops the single oldest one; rollingAverage, p95
\* and p99 are computed over the window only; totalOperations counts every
\* operation recorded since the last reset.
C24_WindowIsFifo ==
    [][ /\ Len(monitor'.operationTimes) <= monitor'.config.sampleSize
        /\ RecordStep =>
              /\ monitor'.operationTimes =
                    LastSamples(Append(monitor.operationTimes, out'.found.value),
                                monitor.config.sampleSize)
              /\ monitor'.totalOperationCount = monitor.totalOperationCount + 1
              /\ Len(monitor'.operationTimes) =
                    IF monitor'.totalOperationCount < monitor'.config.sampleSize
                    THEN monitor'.totalOperationCount
                    ELSE monitor'.config.sampleSize
        /\ out'.op = "getDetailedMetrics" =>
              /\ out'.found.totalOperations = monitor'.totalOperationCount
              /\ IF monitor'.operationTimes = <<>>
                 THEN /\ out'.found.rollingAverage.numerator = 0
                      /\ out'.found.p95ResponseTime = 0
                      /\ out'.found.p99ResponseTime = 0
                 ELSE /\ out'.found.rollingAverage.numerator
                            * Len(monitor'.operationTimes)
                         = Sum(monitor'.operationTimes)
                            * out'.found.rollingAverage.denominator
                      /\ out'.found.p95ResponseTime
                            = RankedSample(monitor'.operationTimes, 95)
                      /\ out'.found.p99ResponseTime
                            = RankedSample(monitor'.operationTimes, 99)
      ]_vars

\* the metrics of a full window that has dropped samples and whose oldest
\* and newest samples differ
C24_Witness ==
    /\ Measured
    /\ Len(monitor.operationTimes) = monitor.config.sampleSize
    /\ monitor.totalOperationCount > monitor.config.sampleSize + 1
    /\ monitor.config.sampleSize > 1
    /\ monitor.operationTimes[1] > monitor.operationTimes[Len(monitor.operationTimes)]

\* C25: each recordOperation(d) adds one to totalOperations and to at most
\* one threshold counter: timeoutOperations when d > maxParseTime,
\* slowOperations when warningParseTime < d <= maxParseTime, none otherwise;
\* slowOperations + timeoutOperations never exceeds totalOperations; and
\* resetMetrics returns the three counters and the window to zero / empty.
C25_Counters ==
    [][ /\ monitor'.slowOperationCount + monitor'.timeoutOperationCount
              <= monitor'.totalOperationCount
        /\ RecordStep =>
              /\ monitor'.totalOperationCount = monitor.totalOperationCount + 1
              /\ monitor'.timeoutOperationCount - monitor.timeoutOperationCount
                    = IF out'.found.value > monitor.config.maxParseTime
                      THEN 1 ELSE 0
              /\ monitor'.slowOperationCount - monitor.slowOperationCount
                    = IF /\ out'.found.value > monitor.config.warningParseTime
                         /\ out'.found.value <= monitor.config.maxParseTime
                      THEN 1 ELSE 0
        /\ out'.op = "resetMetrics" =>
              /\ monitor'.totalOperationCount = 0
              /\ monitor'.slowOperationCount = 0
              /\ monitor'.timeoutOperationCount = 0
              /\ monitor'.operationTimes = <<>>
      ]_vars

\* an operation over the hard threshold was recorded after slow ones
C25_Witness ==
    /\ Recorded
    /\ out.found.value > monitor.config.maxParseTime
    /\ monitor.slowOperationCount > 0
    /\ monitor.timeoutOperationCount > 1
    /\ monitor.slowOperationCount + monitor.timeoutOperationCount
          < monitor.totalOperationCount

(***************************************************************************)
(* Claims about the resolution of a name, checked under SpecResolve        *)
(***************************************************************************)
Declared == analyzeSymbols(doc.jsBlocks)

Resolved == q.state = "settled" /\ q.id > 0

\* the declaration a lookup of the name resolves to without the cache and
\* with the index the cache holds
Uncached(name) == findSymbolDefinition(Declared, name)
Indexed(name) == findSymbolDefinitionOptimized(createSymbolIndex(Declared), name)

\* what each provider answers for a declaration
AnswerFor(provider, declaration, request) ==
    IF declaration = Null THEN Null
    ELSE IF provider = "definition" THEN Location(doc.uri, declaration)
    ELSE IF provider = "hover" THEN Hover(declaration, request.wordRange)
    ELSE Highlights(declaration)

\* C29: for every symbol list and name the lookup in the index of
\* createSymbolIndex returns the same symbol record as the uncached lookup
\* (filter, sort, first), also when declarations share a place; so the
\* providers that use the cache and the one that does not resolve a name to
\* the same declaration.
C29_IndexAgrees ==
    /\ \A name \in ResolveNames : Indexed(name) = Uncached(name)
    /\ Resolved =>
          /\ q.result = Fulfilled(AnswerFor(q.provider,
                                            Uncached(q.request.wordRange.text),
                                            q.request))
          /\ q.result = Fulfilled(AnswerFor(q.provider,
                                            Indexed(q.request.wordRange.text),
                                            q.request))

\* two declarations of the name at the same place and of different kinds,
\* listed after a declaration of the name at a later place; the second
\* query of the document, answered from the cache, resolved the name
C29_Witness ==
    /\ Resolved
    /\ q.id = 2
    /\ q.provider = "definition"
    /\ q.request.wordRange.text = <<"a">>
    /\ Len(Declared) = 3
    /\ Declared[1].name = <<"a">>
    /\ Declared[2].definition = Declared[3].definition
    /\ Declared[2].name = <<"a">> /\ Declared[3].name = <<"a">>
    /\ Declared[2].kind # Declared[3].kind
    /\ Declared[2].definition.line < Declared[1].definition.line
    /\ Indexed(<<"a">>) = Declared[2]

(***************************************************************************)
(* Claims about the fragment under the cursor, checked under SpecBlocks    *)
(***************************************************************************)
\* the cursor lies in the span of the fragment
InSpan(block, position) ==
    IF block.startLine = block.endLine
    THEN /\ position.line = block.startLine
         /\ block.startCharacter <= position.character
         /\ position.character <= block.endCharacter
    ELSE /\ block.startLine < block.endLine
         /\ \/ /\ position.line = block.startLine
               /\ position.character >= block.startCharacter
            \/ /\ position.line = block.endLine
               /\ position.character <= block.endCharacter
            \/ /\ block.startLine < position.line
               /\ position.line < block.endLine

SpansAt(position) ==
    { i \in DOMAIN doc.jsBlocks : InSpan(doc.jsBlocks[i], position) }

Looked == out.op = "findBlockAtPosition"

\* C27: findBlockAtPosition returns a fragment exactly when the cursor lies
\* in its span (single line: on the line, within [startCharacter,
\* endCharacter]; several lines: on the start line at or after
\* startCharacter, on the end line at or before endCharacter, or on a line
\* strictly between); it returns null when no fragment has the cursor in
\* its span, and the query then has no result.
C27_BlockAtCursor ==
    /\ Looked =>
          IF SpansAt(out.position) = {} THEN out.found = Null
          ELSE \E i \in SpansAt(out.position) : out.found = doc.jsBlocks[i]
    /\ (q.id > 0 /\ q.state = "settled") =>
          IF SpansAt(q.request.position) = {}
          THEN q.result = Fulfilled(Null)
          ELSE q.result # Fulfilled(Null)

\* the cursor is on the end line of the second fragment, which spans three
\* lines, and past the end of the first fragment on that line
C27_Witness ==
    /\ Looked
    /\ Len(doc.jsBlocks) = 2
    /\ out.found = doc.jsBlocks[2]
    /\ out.found # doc.jsBlocks[1]
    /\ out.found.startLine + 2 = out.found.endLine
    /\ out.position.line = out.found.endLine
    /\ out.position.character = out.found.endCharacter
    /\ doc.jsBlocks[1].startLine = out.position.line

(***************************************************************************)
(* Claims about the request counters of the cache, checked under SpecCache *)
(***************************************************************************)
Counters(metrics) ==
    <<metrics.totalRequests, metrics.cacheHits, metrics.cacheMisses>>

\* a step that is one getSymbols or getParsedDocument call
GetStep ==
    /\ calls' = calls + 1
    /\ ret'.op \in {"getSymbols", "getParsedDocument"}

\* a step of any other kind but a reset of the metrics
OtherStep ==
    /\ ret'.op \notin {"getSymbols", "getParsedDocument",
                       "resetPerformanceMetrics"}

\* C26: every getSymbols or getParsedDocument call adds one to totalRequests
\* and to exactly one of cacheHits (a value is returned) and cacheMisses
\* (null is returned), so totalRequests = cacheHits + cacheMisses in every
\* state and getStats().hitRate = cacheHits / totalRequests (0 without
\* requests); the sets, the clears, eviction and the sweep change none of
\* the counters.
C26_RequestCounters ==
    [][ /\ performanceMetrics'.totalRequests
              = performanceMetrics'.cacheHits + performanceMetrics'.cacheMisses
        /\ GetStep =>
              Counters(performanceMetrics') =
                 IF ret'.value # Null
                 THEN <<performanceMetrics.totalRequests + 1,
                        performanceMetrics.cacheHits + 1,
                        performanceMetrics.cacheMisses>>
                 ELSE <<performanceMetrics.totalRequests + 1,
                        performanceMetrics.cacheHits,
                        performanceMetrics.cacheMisses + 1>>
        /\ OtherStep => Counters(performanceMetrics') = Counters(performanceMetrics)
        /\ ret'.op = "getStats" =>
              IF performanceMetrics'.totalRequests = 0
              THEN ret'.value.hitRate.numerator = 0
              ELSE ret'.value.hitRate.numerator * performanceMetrics'.totalRequests
                      = performanceMetrics'.cacheHits
                           * ret'.value.hitRate.denominator
      ]_vars

\* the statistics after a miss, a set and a hit
C26_Witness ==
    /\ ret.op = "getStats"
    /\ performanceMetrics.cacheHits = 1
    /\ performanceMetrics.cacheMisses = 1
    /\ ret.value.hitRate = Quotient(1, 2)
    /\ ret.value.size = 1

(***************************************************************************)
(* C21: a setSymbols (setParsedDocument) call made while its map holds     *)
(* MAX_CACHE_SIZE entries removes exactly a fifth of them, twenty, before  *)
(* the insert; no removed entry was populated later than a kept one; and   *)
(* the get calls, hits included, leave both maps as they were, so that     *)
(* they have no part in the choice                                         *)
(***************************************************************************)
Without(m, R) == SelectSeq(m, LAMBDA e : e.uri \notin R)

Written(call, at) ==
    [uri |-> call.uri, version |-> call.version, value |-> call.value,
     timestamp |-> at]

\* the keys that may have been removed: those that are gone, and with or
\* without the key that was written
Candidates(m, after, call) ==
    LET gone == MapKeys(m) \ MapKeys(after)
    IN  {gone, gone \cup ({call.uri} \cap MapKeys(m))}

OldestRemoved(m, after, call, at) ==
    \E R \in Candidates(m, after, call) :
        /\ Cardinality(R) = 20
        /\ 5 * Cardinality(R) >= Len(m) /\ 5 * (Cardinality(R) - 1) < Len(m)
        /\ \A i, j \in 1..Len(m) :
              m[i].uri \in R /\ m[j].uri \notin R
                 => m[i].timestamp <= m[j].timestamp
        /\ after = Without(m, R) \o <<Written(call, at)>>
           \/ /\ call.uri \notin R
              /\ call.uri \in MapKeys(m)
              /\ after = [i \in 1..Len(Without(m, R)) |->
                            IF Without(m, R)[i].uri = call.uri
                            THEN Written(call, at) ELSE Without(m, R)[i]]

SetStep(op) == calls' = calls + 1 /\ ret'.op = op

C21_OldestFifthEvicted ==
    [][/\ SetStep("setSymbols") /\ Len(cache) >= MAX_CACHE_SIZE
          => OldestRemoved(cache, cache', ret', now')
       /\ SetStep("setParsedDocument")
             /\ Len(parsedDocumentCache) >= MAX_CACHE_SIZE
          => OldestRemoved(parsedDocumentCache, parsedDocumentCache',
                           ret', now')
       /\ GetStep => cache' = cache
                     /\ parsedDocumentCache' = parsedDocumentCache]_vars

\* the document set first and read with a hit since then is removed by the
\* set of another document, while documents that were never read stay; and
\* a document at the front of the map stays because it was set again later
C21_Witness ==
    /\ ret.op = "setSymbols" /\ ret.uri = LaterUri
    /\ Len(cache) = MAX_CACHE_SIZE - 20 + 1
    /\ performanceMetrics.cacheHits > 0
    /\ \E u \in Foreground : lastSet["symbols"][u] # Null /\ ~MapHas(cache, u)

C21_WitnessFront ==
    /\ ret.op = "setSymbols" /\ ret.uri = LaterUri
    /\ Len(cache) = MAX_CACHE_SIZE - 20 + 1
    /\ cache[1].uri \in Foreground
    /\ cache[1].timestamp > cache[2].timestamp

(***************************************************************************)
(* C23: a setSymbols (setParsedDocument) call that repeats the call just   *)
(* made, with the same uri, version and value, leaves the same cached      *)
(* identities with the same versions and values as the first call did      *)
(***************************************************************************)
Identities(m) ==
    { <<m[i].uri, m[i].version, m[i].value>> : i \in 1..Len(m) }

Repeats(op) ==
    /\ ret.op = op
    /\ SetStep(op)
    /\ ret'.uri = ret.uri /\ ret'.version = ret.version
    /\ ret'.value = ret.value

C23_SetTwiceAsOnce ==
    [][/\ Repeats("setSymbols") => Identities(cache') = Identities(cache)
       /\ Repeats("setParsedDocument")
          => Identities(parsedDocumentCache') = Identities(parsedDocumentCache)
      ]_vars

\* what does hold: the repeated call changes nothing but the timestamp of
\* its entry when the first call left fewer than MAX_CACHE_SIZE entries,
\* and otherwise it removes a fifth of the other entries and keeps its own
RepeatedSet(m, after, call) ==
    /\ <<call.uri, call.version, call.value>> \in Identities(after)
    /\ Identities(after) \subseteq Identities(m)
    /\ Len(m) < MAX_CACHE_SIZE => Identities(after) = Identities(m)
    /\ Len(m) >= MAX_CACHE_SIZE => Len(after) = Len(m) - CeilFifth(Len(m))

SetTwiceBelowCapacity ==
    [][/\ Repeats("setSymbols") => RepeatedSet(cache, cache', ret')
       /\ Repeats("setParsedDocument")
          => RepeatedSet(parsedDocumentCache, parsedDocumentCache', ret')
      ]_vars

\* the second of two setSymbols calls for one document has evicted a fifth
\* of the documents the first one kept
EvictedByRepeat ==
    /\ ret.op = "setSymbols"
    /\ calls = 2
    /\ Len(cache) = MAX_CACHE_SIZE - CeilFifth(MAX_CACHE_SIZE)
    /\ cache[Len(cache)].uri = ret.uri
    /\ BackgroundCached(cache) = Len(cache) - 1
    /\ BackgroundCached(parsedDocumentCache) = MAX_CACHE_SIZE - 1

(***************************************************************************)
(* C28: the getSymbols (getParsedDocument) call made right after a         *)
(* setSymbols (setParsedDocument) call for the same uri and version        *)
(* returns the value that was set, also when the set call evicted and      *)
(* when all timestamps are equal; the entry a set call writes is in the    *)
(* map when the call returns                                               *)
(***************************************************************************)
ReadsBack(setOp, getOp) ==
    /\ ret.op = setOp
    /\ calls' = calls + 1
    /\ ret'.op = getOp
    /\ ret'.uri = ret.uri /\ ret'.version = ret.version

Holds(m, call, at) == \E i \in 1..Len(m) : m[i] = Written(call, at)

C28_ReadYourWrite ==
    [][/\ ReadsBack("setSymbols", "getSymbols") => ret'.value = ret.value
       /\ ReadsBack("setParsedDocument", "getParsedDocument")
          => ret'.value = ret.value
       /\ SetStep("setSymbols") => Holds(cache', ret', now')
       /\ SetStep("setParsedDocument")
          => Holds(parsedDocumentCache', ret', now')]_vars

\* read back after a set call that evicted its own earlier entry, the
\* oldest of a hundred entries with one timestamp
C28_Witness ==
    /\ ret.op = "getSymbols" /\ ret.value # Null
    /\ calls = 3
    /\ lastSet["symbols"][ret.uri] = [version |-> ret.version,
                                      value |-> ret.value]
    /\ Len(cache) = MAX_CACHE_SIZE - CeilFifth(MAX_CACHE_SIZE) + 1
    /\ cache[Len(cache)].uri = ret.uri
    /\ \A i \in 1..Len(cache) : cache[i].timestamp = now
    /\ BackgroundCached(parsedDocumentCache) = NumBackground - 1

(***************************************************************************)
(* C22: when a periodic cleanup has run, neither map holds an entry older  *)
(* than CACHE_TTL_MS, and the entries it removed were all older than that; *)
(* the cleanup runs every CLEANUP_INTERVAL_MS until dispose, so that while *)
(* the timer is set no entry was older than the TTL at the last due time   *)
(***************************************************************************)
Age(e, at) == at - e.timestamp

Swept(m, after, at) ==
    /\ \A i \in 1..Len(after) : Age(after[i], at) <= CACHE_TTL_MS
    /\ after = SelectSeq(m, LAMBDA e : \E i \in 1..Len(after) : after[i] = e)
    /\ \A i \in 1..Len(m) :
          (\A j \in 1..Len(after) : after[j] # m[i])
             => Age(m[i], at) > CACHE_TTL_MS

LastDue(at) == (at \div CLEANUP_INTERVAL_MS) * CLEANUP_INTERVAL_MS

PurgedAtLastDue(m) ==
    \A i \in 1..Len(m) : Age(m[i], LastDue(now)) <= CACHE_TTL_MS

C22_SweepPurgesExpired ==
    [][/\ ret'.op = "cleanupExpiredEntries"
          => /\ Swept(cache, cache', now')
             /\ Swept(parsedDocumentCache, parsedDocumentCache', now')
       /\ cleanupTimer'
          => /\ PurgedAtLastDue(cache')
             /\ PurgedAtLastDue(parsedDocumentCache')
             /\ now' # now /\ now' = LastDue(now')
                => ret'.op = "cleanupExpiredEntries"]_vars

\* a cleanup has removed the foreground document from both maps and kept
\* a document that is exactly CACHE_TTL_MS old
C22_Witness ==
    /\ ret.op = "cleanupExpiredEntries"
    /\ \E u \in Foreground :
          /\ lastSet["symbols"][u] # Null /\ ~MapHas(cache, u)
          /\ lastSet["documents"][u] # Null
          /\ ~MapHas(parsedDocumentCache, u)
    /\ \E i \in 1..Len(cache) : Age(cache[i], now) = CACHE_TTL_MS

(***************************************************************************)
(* C30: the cursor manager has at most one debounce timer pending; what    *)
(* is evaluated is the position of the last cursor move in an EJS editor,  *)
(* HOVER_DELAY_MS after that move; once disposed no timer is pending, no   *)
(* value is given to the context key any more, and the last value given    *)
(* is false                                                                *)
(***************************************************************************)
OneTimer(this) ==
    /\ Cardinality(this.pending) <= 1
    /\ \A t \in this.pending :
          /\ t.handle = this.hoverTimeout
          /\ <<t.position, t.due - HOVER_DELAY_MS>> = this.moved

Evaluates == Len(cursor'.evaluated) = Len(cursor.evaluated) + 1

LatestEvaluated ==
    /\ cursor'.evaluated =
          Append(cursor.evaluated, <<cursor.moved[1], now'>>)
    /\ now' = cursor.moved[2] + HOVER_DELAY_MS
    /\ cursor'.pending = {}

Disposed(this) ==
    /\ this.pending = {}
    /\ this.context # <<>>
    /\ this.context[Len(this.context)] = FALSE

C30_OneTimerFalseAfterDispose ==
    [][/\ OneTimer(cursor')
       /\ Evaluates => LatestEvaluated
       /\ cursor'.isDisposed => Disposed(cursor')
       /\ cursor.isDisposed => cursor' = cursor]_vars

\* a move 50 ms after another has replaced its timer, the second position
\* was found over a defined variable, and the manager was disposed while
\* the timer of a third move was pending
C30_Witness ==
    /\ cursor.isDisposed
    /\ cursor.issued = MaxMoves
    /\ Len(cursor.evaluated) = 1
    /\ cursor.evaluated[1][2] = HalfDelay + HOVER_DELAY_MS
    /\ cursor.context = <<TRUE, FALSE>>
    /\ now < cursor.moved[2] + HOVER_DELAY_MS

====
